---- MODULE Spec2Model ----
(***************************************************************************)
(* Model of the revocation executor of the keylime agent                   *)
(* (src/src/revocation.rs): action lookup, action execution, action list   *)
(* composition, signature-gated processing and the 0mq subscriber loop;    *)
(* and of its quote handlers (src/src/quotes_handler.rs) with the JSON     *)
(* serialization of the quote envelope (src/src/serialization.rs).         *)
(*                                                                         *)
(* Strings and paths are sequences of one-character strings, so that       *)
(* splitting, trimming, Path::join and PathBuf::set_extension are computed *)
(* the way the standard library computes them.                             *)
(***************************************************************************)
EXTENDS Integers, Sequences, FiniteSets, TLC

VARIABLES
    pc,            \* position of the subscriber task
    nmsg,          \* frames received so far
    frame,         \* kind of the last frame received
    cur,           \* the revocation message being processed
    action_list,   \* effective action list of the current message
    idx,           \* 1-based index of the next action to run
    outputs,       \* Vec<Output> collected for the current message
    children,      \* action child processes that are alive
    spawned,       \* subprocesses spawned for the current message, in order
    reaped,        \* what wait_with_output yielded for them, in order
    tmpfiles,      \* temporary JSON files present in work_dir
    ntmp,          \* temporary files created so far (unique names)
    results,       \* whether process_revocation returned Ok, per message
    ret,           \* what the last call of process_revocation returned
    fail,          \* where the current message's action loop stopped
    files,         \* paths that exist on disk
    allow_payload_actions,
    config_actions,
    action_file,   \* Option: contents of <mount>/unzipped/action_list
    lk,            \* one lookup_action call: inputs and result
    al,            \* one action-list composition: inputs and result
    cp,            \* one get_revocation_cert_path call: inputs and result
    h,             \* the quote request being handled, and how far it got
    resp,          \* Option: the response to the last quote request
    nreq,          \* quote requests received so far
    ima_len,       \* entries in the IMA log (append-only)
    ima_ml,        \* IMA reader state: entries seen at the last read
    mb_file,       \* Option: bytes of the measured-boot log file
    rej,           \* where process_revocation rejected the current message
    consumer,      \* a verifier replaying the IMA log from the responses
    codec,         \* one round trip through the base64 codec
    wk             \* concurrent quote handlers and the locks they take

vars == <<pc, nmsg, frame, cur, action_list, idx, outputs, children, spawned,
          reaped, tmpfiles, ntmp, results, ret, fail, files, allow_payload_actions,
          config_actions, action_file, lk, al, cp,
          h, resp, nreq, ima_len, ima_ml, mb_file, rej, consumer, codec, wk>>

svcVars == <<pc, nmsg, frame, cur, action_list, idx, outputs, children,
             spawned, reaped, tmpfiles, ntmp, results, ret, fail, rej>>

envVars == <<files, allow_payload_actions, config_actions, action_file>>

quoteVars == <<h, resp, nreq, ima_len, ima_ml, mb_file, consumer, wk>>

revVars == <<svcVars, envVars, lk, al, cp, codec>>

----------------------------------------------------------------------------
(* Bounds *)

MaxMsgs == 2

----------------------------------------------------------------------------
(* Strings *)

\* Option<T>
None == [some |-> FALSE]

Some(v) == [some |-> TRUE, v |-> v]

Last(s) == s[Len(s)]

RECURSIVE Split(_, _)
\* str::split(sep): the sep-free pieces, empty ones included
Split(s, sep) ==
    IF \A i \in 1..Len(s) : s[i] # sep
    THEN <<s>>
    ELSE LET i == CHOOSE j \in 1..Len(s) :
                      s[j] = sep /\ \A k \in 1..(j - 1) : s[k] # sep
         IN <<SubSeq(s, 1, i - 1)>> \o Split(SubSeq(s, i + 1, Len(s)), sep)

IsWhitespace(c) == c \in {" ", "\n", "\t", "\r"}

RECURSIVE TrimStart(_)
TrimStart(s) ==
    IF s # <<>> /\ IsWhitespace(s[1]) THEN TrimStart(Tail(s)) ELSE s

RECURSIVE TrimEnd(_)
TrimEnd(s) ==
    IF s # <<>> /\ IsWhitespace(Last(s))
    THEN TrimEnd(SubSeq(s, 1, Len(s) - 1))
    ELSE s

\* str::trim(): leading and trailing whitespace removed
Trim(s) == TrimEnd(TrimStart(s))

RECURSIVE MapTrim(_)
MapTrim(ss) == IF ss = <<>> THEN <<>> ELSE <<Trim(Head(ss))>> \o MapTrim(Tail(ss))

NonEmpty(s) == s # <<>>

----------------------------------------------------------------------------
(* Paths (std::path) *)

PY == <<"p", "y">>

SHIM_PY == <<"s", "h", "i", "m", ".", "p", "y">>

UNZIPPED == <<"u", "n", "z", "i", "p", "p", "e", "d">>

ACTION_LIST == <<"a", "c", "t", "i", "o", "n", "_", "l", "i", "s", "t">>

SECURE == <<"s", "e", "c", "u", "r", "e">>

\* config.work_dir and config.revocation_actions_dir (absolute)
work_dir == <<"/", "w">>

actions_dir == <<"/", "A">>

IsAbsolute(p) == p # <<>> /\ p[1] = "/"

\* Path::join / PathBuf::push: an absolute argument replaces the base
Join(base, p) ==
    IF IsAbsolute(p) THEN p
    ELSE IF base # <<>> /\ Last(base) # "/" THEN base \o <<"/">> \o p
    ELSE base \o p

\* secure_mount::mount(work_dir, secure_size), when it succeeds
mount == Join(work_dir, SECURE)

unzipped == Join(mount, UNZIPPED)

IsDot(c) == c = <<".">>

IsDotDot(c) == c = <<".", ".">>

\* Path::components, without the root: empty and "." pieces are dropped
Components(p) ==
    LET Keep(c) == c # <<>> /\ ~IsDot(c)
    IN SelectSeq(Split(p, "/"), Keep)

RECURSIVE Resolve(_, _)
Resolve(cs, acc) ==
    IF cs = <<>> THEN acc
    ELSE IF IsDotDot(Head(cs))
         THEN Resolve(Tail(cs), IF acc = <<>> THEN acc ELSE SubSeq(acc, 1, Len(acc) - 1))
         ELSE Resolve(Tail(cs), Append(acc, Head(cs)))

\* the file an absolute path names, as the list of its components
Normalize(p) == Resolve(Components(p), <<>>)

\* Path::exists on a file system holding `fs`
Exists(fs, p) == Normalize(p) \in fs

IsPrefix(s, t) == Len(s) <= Len(t) /\ SubSeq(t, 1, Len(s)) = s

\* the file named by p lies inside directory dir
IsUnder(p, dir) ==
    /\ IsPrefix(Normalize(dir), Normalize(p))
    /\ Normalize(dir) # Normalize(p)

RECURSIVE StripTrailing(_)
\* the path up to the end of its last component
StripTrailing(p) ==
    IF Len(p) > 1 /\ Last(p) = "/" THEN StripTrailing(SubSeq(p, 1, Len(p) - 1))
    ELSE IF Len(p) > 2 /\ SubSeq(p, Len(p) - 1, Len(p)) = <<"/", ".">>
         THEN StripTrailing(SubSeq(p, 1, Len(p) - 2))
         ELSE p

\* Path::file_name: the last component when it is a normal one
FileName(p) ==
    LET cs == Components(p)
    IN IF cs = <<>> \/ IsDotDot(Last(cs)) THEN None ELSE Some(Last(cs))

\* length of Path::file_stem within the file name
StemLen(name) ==
    LET dots == {i \in 1..Len(name) : name[i] = "."}
    IN IF dots = {} THEN Len(name)
       ELSE LET d == CHOOSE i \in dots : \A j \in dots : j <= i
            IN IF d = 1 THEN Len(name) ELSE d - 1

\* PathBuf::set_extension(ext): None when the path has no file name
SetExtension(p, ext) ==
    IF ~FileName(p).some THEN None
    ELSE LET q == StripTrailing(p)
             name == FileName(p).v
         IN Some(SubSeq(q, 1, Len(q) - Len(name) + StemLen(name)) \o <<".">> \o ext)

----------------------------------------------------------------------------
(* Errors *)

ErrOther == [kind |-> "Other"]

ErrNotFound(action) == [kind |-> "Io", not_found |-> TRUE, text |-> action]

ErrIo == [kind |-> "Io", not_found |-> FALSE, text |-> <<>>]

ErrInvalidRequest == [kind |-> "InvalidRequest"]

ErrConfiguration == [kind |-> "Configuration"]

ErrCrypto == [kind |-> "Crypto"]

ErrJson == [kind |-> "Json"]

ErrSecureMount == [kind |-> "SecureMount"]

ErrExecution(code, stderr) == [kind |-> "Execution", code |-> code, stderr |-> stderr]

ErrScript(action, code, stderr) ==
    [kind |-> "Script", action |-> action, code |-> code, stderr |-> stderr]

Ok(v) == [ok |-> TRUE, val |-> v]

Err(e) == [ok |-> FALSE, err |-> e]

----------------------------------------------------------------------------
(* lookup_action *)

possible_paths_preinstalled_first(payload_dir, act_dir, action, py_action) ==
    << [script |-> Join(act_dir, action),        is_python |-> FALSE, is_payload |-> FALSE],
       [script |-> Join(act_dir, py_action),     is_python |-> TRUE,  is_payload |-> FALSE],
       [script |-> Join(payload_dir, action),    is_python |-> FALSE, is_payload |-> TRUE],
       [script |-> Join(payload_dir, py_action), is_python |-> TRUE,  is_payload |-> TRUE] >>

\* (script, is_python, is_payload), in lookup order
possible_paths(payload_dir, act_dir, action, py_action) ==
    << [script |-> Join(act_dir, action),        is_python |-> FALSE, is_payload |-> FALSE],
       [script |-> Join(payload_dir, action),    is_python |-> FALSE, is_payload |-> TRUE],
       [script |-> Join(act_dir, py_action),     is_python |-> TRUE,  is_payload |-> FALSE],
       [script |-> Join(payload_dir, py_action), is_python |-> TRUE,  is_payload |-> TRUE] >>

\* the .filter(..): payload candidates are ignored when not allowed
PayloadFilter(c, allow) == ~c.is_payload \/ allow

\* the candidate .find(|path| path.exists()) yields, or None
FindScript(fs, payload_dir, act_dir, action, allow) ==
    LET Eligible(c) == PayloadFilter(c, allow) /\ Exists(fs, c.script)
        hits == SelectSeq(possible_paths(payload_dir, act_dir, action,
                                         SetExtension(action, PY).v), Eligible)
    IN IF hits = <<>> THEN None ELSE Some(Head(hits))

CommandOfScript(found, act_dir) == found.script

\* the command line of a found script: the shim for Python actions
CommandOf(found, act_dir) ==
    IF found.is_python THEN Join(act_dir, SHIM_PY) ELSE found.script

lookup_action(fs, payload_dir, act_dir, action, allow) ==
    IF ~SetExtension(action, PY).some THEN Err(ErrOther)
    ELSE LET found == FindScript(fs, payload_dir, act_dir, action, allow)
         IN IF ~found.some THEN Err(ErrNotFound(action))
            ELSE Ok([command    |-> CommandOf(found.v, act_dir),
                     is_python  |-> found.v.is_python,
                     is_payload |-> found.v.is_payload])

----------------------------------------------------------------------------
(* run_revocation_actions: composition of the action list *)

\* .split(sep).map(|script| script.trim()).filter(|script| !script.is_empty())
Scripts(s, sep) == SelectSeq(MapTrim(Split(s, sep)), NonEmpty)

ActionListFileFirst(config, file) ==
    IF file.some THEN Scripts(file.v, "\n") \o Scripts(config, ",")
    ELSE Scripts(config, ",")

\* config entries, extended by the entries of action_list when it exists
ActionList(config, file) ==
    IF file.some THEN Scripts(config, ",") \o Scripts(file.v, "\n")
    ELSE Scripts(config, ",")

----------------------------------------------------------------------------
(* run_action *)

\* std::process::Output of a child: exit code (None when killed by a
\* signal), stdout and stderr
Success(output) == output.code.some /\ output.code.v = 0

\* json_path: the NamedTempFile created in work_dir, kept
JsonPath(n) == Join(work_dir, <<".", "t", "m", "p", ToString(n)>>)

CommandLineOneEnv(found, action, json_path, payload_dir, act_dir) ==
    [exe  |-> found.command,
     argv |-> IF found.is_python THEN <<action, json_path>> ELSE <<json_path>>,
     cwd  |-> work_dir,
     env  |-> Some(act_dir)]

\* the Command run_action builds for a resolved action
CommandLine(found, action, json_path, payload_dir, act_dir) ==
    IF found.is_python
    THEN [exe  |-> found.command,
          argv |-> <<action, json_path>>,
          cwd  |-> work_dir,
          env  |-> Some(IF found.is_payload THEN payload_dir ELSE act_dir)]
    ELSE [exe  |-> found.command,
          argv |-> <<json_path>>,
          cwd  |-> work_dir,
          env  |-> None]

\* the temporary files left once spawn() has returned
\* .spawn()? returns early on failure and nothing removes the file
FilesAfterSpawn(tmp, json_path, spawn_ok) == tmp

\* both arms of the match on wait_with_output remove the file
FilesAfterWait(tmp, json_path) == tmp \ {json_path}

\* run_action does not go past child.wait_with_output() while the child
\* runs; waitpid fails only for a child that is no longer a live child
AfterSpawnNoWait == "actions"

AfterSpawn == "wait"

\* what run_action returns once the child has been waited for
AfterWait(waited) ==
    IF ~waited.ok THEN Err(ErrIo)
    ELSE IF ~Success(waited.val)
         THEN Err(ErrExecution(waited.val.code, waited.val.stderr))
         ELSE Ok(waited.val)

\* run_revocation_actions, Ok(output) arm: outputs.push(output)
PushOutputFront(outs, output) == <<output>> \o outs

PushOutput(outs, output) == Append(outs, output)

----------------------------------------------------------------------------
(* Error::exe_code and Error::stderr (crate::error) *)

\* the exit code an error carries; `lenient` decides what an error that
\* carries none yields
exe_code(e, lenient) ==
    IF e.kind = "Execution" THEN Ok(e.code)
    ELSE IF lenient THEN Ok(None) ELSE Err(ErrOther)

stderr_of(e, lenient) ==
    IF e.kind = "Execution" THEN Ok(e.stderr)
    ELSE IF lenient THEN Ok(<<>>) ELSE Err(ErrOther)

----------------------------------------------------------------------------
(* run_revocation_actions: the Err(e) arm of the action loop *)

ActionErrorUnnamed(action, e, lenient) ==
    IF ~exe_code(e, lenient).ok THEN exe_code(e, lenient).err
    ELSE IF ~stderr_of(e, lenient).ok THEN stderr_of(e, lenient).err
    ELSE ErrScript(<<>>, exe_code(e, lenient).val, stderr_of(e, lenient).val)

\* Error::Script(String::from(action), e.exe_code()?, e.stderr()?)
ActionError(action, e, lenient) ==
    IF ~exe_code(e, lenient).ok THEN exe_code(e, lenient).err
    ELSE IF ~stderr_of(e, lenient).ok THEN stderr_of(e, lenient).err
    ELSE ErrScript(action, exe_code(e, lenient).val, stderr_of(e, lenient).val)

----------------------------------------------------------------------------
(* get_revocation_cert_path *)

\* crate::common::REV_CERT, the file name of the certificate
REV_CERT == <<"R", ".", "c", "r", "t">>

DEFAULT == <<"d", "e", "f", "a", "u", "l", "t">>

\* format!("{}/secure/unzipped/{}", &config.work_dir, REV_CERT)
default_path(wd) ==
    wd \o <<"/">> \o SECURE \o <<"/">> \o UNZIPPED \o <<"/">> \o REV_CERT

\* if cert_path_buf.as_path().is_relative(): expand from the work_dir
ExpandAsGiven(wd, p) == p

Expand(wd, p) == IF ~IsAbsolute(p) THEN Join(wd, p) ELSE p

get_revocation_cert_path(wd, revocation_cert) ==
    LET r == Trim(revocation_cert)
    IN IF r = DEFAULT THEN Ok(Expand(wd, default_path(wd)))
       ELSE IF r = <<>> THEN Err(ErrConfiguration)
       ELSE Ok(Expand(wd, r))

----------------------------------------------------------------------------
(* process_revocation: everything before run_revocation_actions *)

VerifyAnyOutcome(body, cert, verified, json) ==
    IF ~body.signature THEN Err(ErrInvalidRequest)
    ELSE IF ~body.msg THEN Err(ErrInvalidRequest)
    ELSE IF cert = "missing" THEN Err(ErrIo)
    ELSE IF cert = "unloadable" THEN Err(ErrConfiguration)
    ELSE IF cert = "no_public_key" THEN Err(ErrCrypto)
    ELSE IF ~json THEN Err(ErrJson)
    ELSE Ok(TRUE)

VerifyCertFirst(body, cert, verified, json) ==
    IF cert = "missing" THEN Err(ErrIo)
    ELSE IF cert = "unloadable" THEN Err(ErrConfiguration)
    ELSE IF cert = "no_public_key" THEN Err(ErrCrypto)
    ELSE IF ~body.signature THEN Err(ErrInvalidRequest)
    ELSE IF ~body.msg THEN Err(ErrInvalidRequest)
    ELSE IF verified = "true"
         THEN IF ~json THEN Err(ErrJson) ELSE Ok(TRUE)
         ELSE Err(ErrInvalidRequest)

\* Ok when the message may be dispatched to the actions
Verify(body, cert, verified, json) ==
    IF ~body.signature THEN Err(ErrInvalidRequest)
    ELSE IF ~body.msg THEN Err(ErrInvalidRequest)
    ELSE IF cert = "missing" THEN Err(ErrIo)
    ELSE IF cert = "unloadable" THEN Err(ErrConfiguration)
    ELSE IF cert = "no_public_key" THEN Err(ErrCrypto)
    ELSE IF verified = "true"
         THEN IF ~json THEN Err(ErrJson) ELSE Ok(TRUE)
         ELSE Err(ErrInvalidRequest)

\* the statement of process_revocation that returns the error: the checks
\* of the body come before cert_path.canonicalize() and crypto::load_x509
RejectedAt(body, cert, verified, json) ==
    IF ~body.signature THEN "signature"
    ELSE IF ~body.msg THEN "msg"
    ELSE IF cert = "missing" THEN "canonicalize"
    ELSE IF cert = "unloadable" THEN "load_x509"
    ELSE IF cert = "no_public_key" THEN "public_key"
    ELSE IF verified = "true" THEN "from_str"
    ELSE "asym_verify"

\* the statements that have run when process_revocation returns from `stage`
StagesBefore(stage) ==
    LET order == <<"signature", "msg", "canonicalize", "load_x509",
                   "public_key", "asym_verify", "from_str">>
        at == CHOOSE i \in 1..Len(order) : order[i] = stage
    IN {order[i] : i \in 1..at}

----------------------------------------------------------------------------
(* run_revocation_service: the subscriber loop *)

AfterProcessPropagate(result) == IF result.ok THEN "recv" ELSE "returned"

\* `let _ = process_revocation(..)`: the result is dropped
AfterProcess(result) == "recv"

\* where the loop goes after a frame: `continue` for an unreadable one,
\* `?` on serde_json::from_str for one that is not JSON
AfterFrame(kind) ==
    IF kind \in {"recv_error", "not_utf8"} THEN "recv"
    ELSE IF kind = "not_json" THEN "returned"
    ELSE "process"

----------------------------------------------------------------------------
(* serialization.rs, and the JSON the quote envelope is written as *)

JsonNull == [t |-> "null"]

JsonTrue == [t |-> "true"]

JsonString(str) == [t |-> "string", v |-> str]

JsonNumber(n) == [t |-> "number", v |-> n]

JsonArray(elems) == [t |-> "array", v |-> elems]

\* the standard base64 alphabet
B64 ==
    << "A", "B", "C", "D", "E", "F", "G", "H", "I", "J", "K", "L", "M",
       "N", "O", "P", "Q", "R", "S", "T", "U", "V", "W", "X", "Y", "Z",
       "a", "b", "c", "d", "e", "f", "g", "h", "i", "j", "k", "l", "m",
       "n", "o", "p", "q", "r", "s", "t", "u", "v", "w", "x", "y", "z",
       "0", "1", "2", "3", "4", "5", "6", "7", "8", "9", "+", "/" >>

B64Char(sextet) == B64[sextet + 1]

RECURSIVE Base64Encode(_)
\* base64::encode: three bytes to four characters, padded with "="
Base64Encode(bytes) ==
    IF bytes = <<>> THEN <<>>
    ELSE IF Len(bytes) = 1
    THEN << B64Char(bytes[1] \div 4), B64Char((bytes[1] % 4) * 16), "=", "=" >>
    ELSE IF Len(bytes) = 2
    THEN << B64Char(bytes[1] \div 4),
            B64Char((bytes[1] % 4) * 16 + bytes[2] \div 16),
            B64Char((bytes[2] % 16) * 4), "=" >>
    ELSE << B64Char(bytes[1] \div 4),
            B64Char((bytes[1] % 4) * 16 + bytes[2] \div 16),
            B64Char((bytes[2] % 16) * 4 + bytes[3] \div 64),
            B64Char(bytes[3] % 64) >>
         \o Base64Encode(SubSeq(bytes, 4, Len(bytes)))

\* serialize_as_base64: serializer.serialize_str(&base64::encode(bytes))
serialize_as_base64(bytes) == JsonString(Base64Encode(bytes))

\* serialize_maybe_base64: base64 string for Some, null for None
serialize_maybe_base64(value) ==
    IF value.some THEN JsonString(Base64Encode(value.v)) ELSE JsonNull

\* the error serde::de::Error::custom makes of a base64::DecodeError, and
\* the one serde_json gives for a value of another type
ErrSerde(why) == [kind |-> "Serde", why |-> why]

B64Value(c) == (CHOOSE i \in 1..Len(B64) : B64[i] = c) - 1

RECURSIVE Unpadded(_)
\* the text without the "=" it ends with
Unpadded(text) ==
    IF text # <<>> /\ text[Len(text)] = "=" THEN Unpadded(SubSeq(text, 1, Len(text) - 1))
    ELSE text

RECURSIVE DecodeSymbols(_)
\* four symbols to three bytes; a last group of two or three symbols to
\* one or two bytes
DecodeSymbols(body) ==
    LET v(i) == B64Value(body[i])
    IN IF Len(body) < 2 THEN <<>>
       ELSE IF Len(body) = 2 THEN << v(1) * 4 + v(2) \div 16 >>
       ELSE IF Len(body) = 3
       THEN << v(1) * 4 + v(2) \div 16, (v(2) % 16) * 16 + v(3) \div 4 >>
       ELSE << v(1) * 4 + v(2) \div 16, (v(2) % 16) * 16 + v(3) \div 4,
               (v(3) % 4) * 64 + v(4) >>
            \o DecodeSymbols(SubSeq(body, 5, Len(body)))

\* the bits of the last symbol that belong to no byte
TrailingBits(body) ==
    IF Len(body) % 4 = 2 THEN B64Value(body[Len(body)]) % 16
    ELSE IF Len(body) % 4 = 3 THEN B64Value(body[Len(body)]) % 4
    ELSE 0

Base64DecodeLossy(text, lenient) ==
    LET body == Unpadded(text)
        kept == {i \in 1..Len(body) : body[i] \in {B64[j] : j \in 1..Len(B64)}}
    IN Ok(DecodeSymbols(SubSeq(body, 1, Cardinality(kept)
                                          - (Cardinality(kept) % 4))))

\* base64::decode with the standard alphabet: the bytes, or a DecodeError
\* for a symbol outside the alphabet, an impossible length, padding that
\* does not complete the last group, or a last symbol with bits left over.
\* `lenient`: whether the decoder of the base64 crate in use lets the
\* padding be left out altogether
Base64Decode(text, lenient) ==
    LET body == Unpadded(text)
        pad == Len(text) - Len(body)
        rem == Len(body) % 4
    IN IF \E i \in 1..Len(body) : body[i] \notin {B64[j] : j \in 1..Len(B64)}
       THEN Err(ErrSerde("InvalidByte"))
       ELSE IF rem = 1 THEN Err(ErrSerde("InvalidLength"))
       ELSE IF pad # 0 /\ pad # (4 - rem) % 4 THEN Err(ErrSerde("InvalidPadding"))
       ELSE IF pad = 0 /\ rem # 0 /\ ~lenient THEN Err(ErrSerde("InvalidPadding"))
       ELSE IF TrailingBits(body) # 0 THEN Err(ErrSerde("InvalidLastSymbol"))
       ELSE Ok(DecodeSymbols(body))

\* deserialize_as_base64: String::deserialize, then base64::decode
deserialize_as_base64(json, lenient) ==
    IF json.t # "string" THEN Err(ErrSerde("invalid type"))
    ELSE Base64Decode(json.v, lenient)

\* deserialize_maybe_base64: Option::<WrappedBase64Encoded>::deserialize,
\* unwrapped
deserialize_maybe_base64(json, lenient) ==
    IF json.t = "null" THEN Ok(None)
    ELSE IF ~deserialize_as_base64(json, lenient).ok
    THEN deserialize_as_base64(json, lenient)
    ELSE Ok(Some(deserialize_as_base64(json, lenient).val))

\* what #[derive(Serialize)] writes for an Option<String>, an Option<u64>
\* and an Option<Vec<u8>> field that carries no serde attribute
SerializeOptionString(value) ==
    IF value.some THEN JsonString(value.v) ELSE JsonNull

SerializeOptionU64(value) ==
    IF value.some THEN JsonNumber(value.v) ELSE JsonNull

SerializeOptionBytes(value) ==
    IF value.some THEN JsonArray(value.v) ELSE JsonNull

\* KeylimeQuote as #[derive(Serialize)] writes it: no field of the struct
\* names a serializer
SerializeKeylimeQuote(q) ==
    [quote                      |-> JsonString(q.quote),
     hash_alg                   |-> JsonString(q.hash_alg),
     enc_alg                    |-> JsonString(q.enc_alg),
     sign_alg                   |-> JsonString(q.sign_alg),
     pubkey                     |-> SerializeOptionString(q.pubkey),
     ima_measurement_list       |-> SerializeOptionString(q.ima_measurement_list),
     mb_measurement_list        |-> SerializeOptionBytes(q.mb_measurement_list),
     ima_measurement_list_entry |->
         SerializeOptionU64(q.ima_measurement_list_entry)]

----------------------------------------------------------------------------
(* Characters and numbers of the request parameters *)

Digits == <<"0", "1", "2", "3", "4", "5", "6", "7", "8", "9">>

HexDigits == Digits \o <<"a", "b", "c", "d", "e", "f">>

Range(f) == {f[i] : i \in DOMAIN f}

AsciiDigits == Range(Digits)

AsciiLetters == {"a", "b", "c", "d", "e", "f", "x", "z", "A", "H", "Z"}

\* characters outside ASCII, named by code point: a letter (e acute) and
\* a decimal digit (ARABIC-INDIC DIGIT THREE)
UnicodeLetters == {"U+00E9"}

UnicodeDigits == {"U+0663"}

\* char::is_alphanumeric: Unicode Alphabetic or numeric, not only ASCII
is_alphanumeric(c) ==
    c \in AsciiLetters \cup AsciiDigits \cup UnicodeLetters \cup UnicodeDigits

\* .chars().all(char::is_alphanumeric)
AllAlphanumeric(str) == \A i \in 1..Len(str) : is_alphanumeric(str[i])

\* bytes of a character in UTF-8
Utf8Len(c) == IF c \in UnicodeLetters \cup UnicodeDigits THEN 2 ELSE 1

RECURSIVE StrLen(_)
\* String::len(): the length in bytes
StrLen(str) == IF str = <<>> THEN 0 ELSE Utf8Len(Head(str)) + StrLen(Tail(str))

IndexIn(seq, c) == CHOOSE i \in 1..Len(seq) : seq[i] = c

RECURSIVE DecimalValue(_, _)
DecimalValue(str, acc) ==
    IF str = <<>> THEN acc
    ELSE DecimalValue(Tail(str), acc * 10 + IndexIn(Digits, Head(str)) - 1)

\* u64::MAX, 18446744073709551615, in decimal
U64MaxDigits ==
    <<"1", "8", "4", "4", "6", "7", "4", "4", "0", "7",
      "3", "7", "0", "9", "5", "5", "1", "6", "1", "5">>

RECURSIVE StripZeros(_)
\* the digits without their leading zeros
StripZeros(digits) ==
    IF digits # <<>> /\ Head(digits) = "0" THEN StripZeros(Tail(digits))
    ELSE digits

RECURSIVE DigitsLeq(_, _)
\* a <= b, for numbers written with the same number of digits
DigitsLeq(a, b) ==
    IF a = <<>> THEN TRUE
    ELSE IF Head(a) # Head(b)
    THEN IndexIn(Digits, Head(a)) < IndexIn(Digits, Head(b))
    ELSE DigitsLeq(Tail(a), Tail(b))

\* the number the digits write is at most u64::MAX: the checked
\* multiplication and addition of from_str_radix do not overflow
FitsU64(digits) ==
    LET d == StripZeros(digits)
    IN \/ Len(d) < Len(U64MaxDigits)
       \/ Len(d) = Len(U64MaxDigits) /\ DigitsLeq(d, U64MaxDigits)

\* str::parse::<u64>(): an optional "+" and then one or more ASCII digits
\* of a number that fits 64 bits; the value is computed for numbers of
\* at most nine digits
ParseU64(str) ==
    LET digits == IF str # <<>> /\ Head(str) = "+" THEN Tail(str) ELSE str
    IN IF digits = <<>> \/ \E i \in 1..Len(digits) : digits[i] \notin AsciiDigits
       THEN None
       ELSE IF ~FitsU64(digits) THEN None
       ELSE Some(DecimalValue(StripZeros(digits), 0))

RECURSIVE ToDecimal(_)
\* u64::to_string(): the digits of n
ToDecimal(n) ==
    IF n < 10 THEN <<Digits[n + 1]>>
    ELSE ToDecimal(n \div 10) \o <<Digits[(n % 10) + 1]>>

----------------------------------------------------------------------------
(* The TPM facade (crate::tpm) and the IMA log reader (crate::ima) *)

\* tpm::MAX_NONCE_SIZE, in bytes
MAX_NONCE_SIZE == 20

ErrTpm == [kind |-> "Tpm"]

\* tpm::quote(nonce, mask, data): the quote fields, nothing else set
tpm_quote(nonce, mask, tpm_ok) ==
    IF ~tpm_ok THEN Err(ErrTpm)
    ELSE Ok([quote                      |-> <<"r">> \o nonce,
             hash_alg                   |-> "sha256",
             enc_alg                    |-> "rsa",
             sign_alg                   |-> "rsassa",
             pubkey                     |-> None,
             ima_measurement_list       |-> None,
             mb_measurement_list        |-> None,
             ima_measurement_list_entry |-> None])

\* tpm::check_mask(mask, PcrSlot::Slot0): whether bit 0 of the mask, a
\* hexadecimal number written 0x.., is set; an error when it is no number
check_mask(mask) ==
    IF /\ Len(mask) >= 3 /\ mask[1] = "0" /\ mask[2] = "x"
       /\ \A i \in 3..Len(mask) : mask[i] \in Range(HexDigits)
    THEN Ok((IndexIn(HexDigits, Last(mask)) - 1) % 2 = 1)
    ELSE Err(ErrTpm)

\* the entries of the log with 0-based index from..(to - 1), each entry
\* written as its position in the log
LogEntries(from, to) == [i \in 1..(to - from) |-> from + i]

\* read_measurement_list(ima_ml, path, nth_entry) on a log of `total`
\* entries: (slice, starting offset, number of entries)
read_measurement_list(total, nth_entry, readable) ==
    IF ~readable THEN Err(ErrIo)
    ELSE IF nth_entry = 0
    THEN Ok([ml |-> Some(LogEntries(0, total)), entry |-> None, num |-> total])
    ELSE IF nth_entry < total
    THEN Ok([ml    |-> Some(LogEntries(nth_entry, total)),
             entry |-> Some(nth_entry), num |-> total])
    ELSE Ok([ml |-> None, entry |-> Some(total), num |-> total])

----------------------------------------------------------------------------
(* quotes_handler.rs: identity and integrity *)

PEM == "pem"

BadRequest(message) == [code |-> 400, message |-> message, results |-> None]

InternalServerError(message) ==
    [code |-> 500, message |-> message, results |-> None]

\* HttpResponse::Ok().json(JsonWrapper::success(quote))
Success200(quote) == [code |-> 200, message |-> "Success", results |-> Some(quote)]

\* the checks identity makes before tpm::quote: Ok, or Err of the response
identity_checks(nonce) ==
    IF ~AllAlphanumeric(nonce)
    THEN Err(BadRequest("Parameters should be strictly alphanumeric"))
    ELSE IF StrLen(nonce) > MAX_NONCE_SIZE
    THEN Err(BadRequest("Nonce is too long"))
    ELSE Ok(TRUE)

\* the checks integrity makes on nonce and mask
integrity_checks(nonce, mask) ==
    IF ~AllAlphanumeric(nonce)
    THEN Err(BadRequest("nonce should be strictly alphanumeric"))
    ELSE IF ~AllAlphanumeric(mask)
    THEN Err(BadRequest("mask should be strictly alphanumeric"))
    ELSE IF StrLen(nonce) > MAX_NONCE_SIZE
    THEN Err(BadRequest("Nonce is too long"))
    ELSE Ok(TRUE)

\* a record of the log: its level and the values formatted into it
Warn(args) == [level |-> "WARN", args |-> args]

Debug(args) == [level |-> "DEBUG", args |-> args]

\* data.measuredboot_ml_path
MbPath == <<"/", "m", "b">>

\* what identity logs before it calls tpm::quote: warn! on the 400 paths,
\* debug! when the checks pass
identity_log(nonce) ==
    IF ~AllAlphanumeric(nonce) THEN <<Warn(<<nonce>>)>>
    ELSE IF StrLen(nonce) > MAX_NONCE_SIZE
    THEN <<Warn(<<ToDecimal(MAX_NONCE_SIZE), ToDecimal(StrLen(nonce))>>)>>
    ELSE <<Debug(<<nonce>>)>>

\* what integrity logs before it calls tpm::quote
integrity_log(nonce, mask, partial, pem_ok) ==
    IF ~AllAlphanumeric(nonce) THEN <<Warn(<<nonce>>)>>
    ELSE IF ~AllAlphanumeric(mask) THEN <<Warn(<<mask>>)>>
    ELSE IF StrLen(nonce) > MAX_NONCE_SIZE
    THEN <<Warn(<<ToDecimal(MAX_NONCE_SIZE), ToDecimal(StrLen(nonce))>>)>>
    ELSE IF partial = <<"0">> /\ ~pem_ok THEN <<Debug(<<>>)>>
    ELSE IF partial \notin {<<"0">>, <<"1">>} THEN <<Warn(<<>>)>>
    ELSE <<Debug(<<nonce, mask>>)>>

integrity_pubkey_always(partial, pem_ok) ==
    IF partial \in {<<"0">>, <<"1">>}
    THEN IF pem_ok THEN Ok(Some(PEM))
         ELSE Err(InternalServerError("Unable to retrieve public key"))
    ELSE Err(BadRequest("uri must contain key 'partial' and value '0' or '1'"))

\* `let pubkey = match &param.partial[..]`
integrity_pubkey(partial, pem_ok) ==
    IF partial = <<"0">>
    THEN IF pem_ok THEN Ok(Some(PEM))
         ELSE Err(InternalServerError("Unable to retrieve public key"))
    ELSE IF partial = <<"1">> THEN Ok(None)
    ELSE Err(BadRequest("uri must contain key 'partial' and value '0' or '1'"))

\* how crypto::pkey_pub_to_pem went in integrity: it is called for
\* partial "0" only
pem_of(partial, pem_ok) ==
    IF partial # <<"0">> THEN "none"
    ELSE IF pem_ok THEN "ok" ELSE "failed"

nth_entry_zero(ima_ml_entry) == 0

nth_entry_abs(ima_ml_entry) ==
    IF ~ima_ml_entry.some THEN 0
    ELSE LET str == ima_ml_entry.v
             abs == IF str # <<>> /\ Head(str) = "-" THEN Tail(str) ELSE str
         IN IF ParseU64(abs).some THEN ParseU64(abs).v ELSE 0

nth_entry_or_one(ima_ml_entry) ==
    IF ~ima_ml_entry.some THEN 0
    ELSE IF ParseU64(ima_ml_entry.v).some THEN ParseU64(ima_ml_entry.v).v ELSE 1

\* `let nth_entry = match &param.ima_ml_entry`: parse, or 0
nth_entry_of(ima_ml_entry) ==
    IF ~ima_ml_entry.some THEN 0
    ELSE IF ParseU64(ima_ml_entry.v).some THEN ParseU64(ima_ml_entry.v).v ELSE 0

\* identity: pubkey of the quote set from pkey_pub_to_pem
identity_pubkey(quote, pem_ok) ==
    IF pem_ok THEN Ok([quote EXCEPT !.pubkey = Some(PEM)])
    ELSE Err(InternalServerError("Unable to retrieve quote"))

measured_boot_unmasked(masked, file, read_ok) ==
    IF file.some /\ read_ok THEN Some(file.v) ELSE None

\* mb_measurement_list: the bytes of the file when PCR 0 is in the mask
\* and read() succeeds
measured_boot(masked, file, read_ok) ==
    IF masked /\ file.some /\ read_ok THEN Some(file.v) ELSE None

\* how read(&data.measuredboot_ml_path) went: "none" when it is not called
mb_read_of(masked, file, read_ok) ==
    IF ~masked THEN "none"
    ELSE IF file.some /\ read_ok THEN "ok"
    ELSE "failed"

check_mask_arms_fatal_read(m, mb_read) ==
    IF ~m.ok \/ mb_read = "failed"
    THEN Err(InternalServerError("Unable to retrieve quote"))
    ELSE Ok(m.val)

\* `match tpm::check_mask(..)`: the Err arm returns the 500 response, the
\* Ok(true) arm goes on whether or not the measured-boot log was read
check_mask_arms(m, mb_read) ==
    IF ~m.ok THEN Err(InternalServerError("Unable to retrieve quote"))
    ELSE Ok(m.val)

\* KeylimeQuote { pubkey, ima_measurement_list, mb_measurement_list,
\*                ima_measurement_list_entry, ..id_quote }
Envelope(req) ==
    [req.id_quote.v EXCEPT
        !.pubkey                     = req.pubkey,
        !.ima_measurement_list       = req.ima.v.ml,
        !.mb_measurement_list        = req.mb_measurement_list,
        !.ima_measurement_list_entry = req.ima.v.entry]

IntegrityStepsReadFirst == <<"read_ima", "quote", "check_mask">>

\* the order in which integrity calls out: tpm::quote, tpm::check_mask
\* with the read of the measured-boot log, read_measurement_list
IntegritySteps == <<"quote", "check_mask", "read_ima">>

\* the step after `step`, "respond" after the last one
StepAfter(steps, step) ==
    IF IndexIn(steps, step) = Len(steps) THEN "respond"
    ELSE steps[IndexIn(steps, step) + 1]

----------------------------------------------------------------------------
(* Inputs of the model: action names and files on disk *)

NameA == <<"a">>

NameBsh == <<"b", ".", "s", "h">>

NameHidden == <<".", "h">>

NameShim == <<"s", "h", "i", "m">>

\* an absolute path into the payload directory
NameAbs == Join(unzipped, <<"e">>)

NameDotDot == <<".", ".">>

\* the four paths lookup_action probes for an action, as files
ProbedFiles(action) ==
    IF ~SetExtension(action, PY).some THEN {}
    ELSE LET c == possible_paths(unzipped, actions_dir, action,
                                 SetExtension(action, PY).v)
         IN {Normalize(c[i].script) : i \in 1..4}

\* dir/a and dir/a.py read as plain text, as files
TextFiles(action) ==
    {Normalize(d \o <<"/">> \o action) : d \in {actions_dir, unzipped}}
        \cup {Normalize(d \o <<"/">> \o action \o <<".">> \o PY) :
                 d \in {actions_dir, unzipped}}

ShimFile == Normalize(Join(actions_dir, SHIM_PY))

----------------------------------------------------------------------------
(* Values of the variables a specification does not use *)

NoMsg == [signature |-> FALSE, msg |-> FALSE, cert |-> "unread",
          verified |-> "unverified", json |-> FALSE]

NoOutput == [code |-> None, stdout |-> "", stderr |-> ""]

NoFail == [k |-> 0, cause |-> "none", out |-> NoOutput]

NoRet == [ok |-> FALSE, err |-> [kind |-> "none"]]

NoRej == [body |-> NoMsg, cert |-> "unread", stage |-> "none"]

SvcOff ==
    /\ pc = "off" /\ nmsg = 0 /\ frame = "none" /\ cur = NoMsg
    /\ action_list = <<>> /\ idx = 1 /\ outputs = <<>> /\ children = {}
    /\ spawned = <<>> /\ tmpfiles = {} /\ ntmp = 0 /\ results = <<>>
    /\ ret = NoRet /\ fail = NoFail /\ reaped = <<>> /\ rej = NoRej

EnvOff ==
    /\ files = {} /\ allow_payload_actions = FALSE
    /\ config_actions = <<>> /\ action_file = None

LkOff == lk = [action |-> <<>>, fs |-> {}, allow |-> FALSE, done |-> FALSE,
               result |-> Err(ErrOther)]

AlOff == al = [config |-> <<>>, file |-> None, done |-> FALSE, list |-> <<>>]

\* no quote request is being handled
NoRequest ==
    [kind |-> "none", nonce |-> <<>>, mask |-> None, partial |-> <<>>,
     ima_ml_entry |-> None, step |-> "idle", pubkey |-> None, nth_entry |-> 0,
     id_quote |-> None, mb_measurement_list |-> None, ima |-> None,
     calls |-> <<>>, reads |-> <<>>, quoted |-> None, ima_ml0 |-> 0,
     check |-> "none", mb_read |-> "none", log |-> <<>>, pem |-> "none"]

NoConsumer == [strategy |-> "none", replay |-> <<>>, got |-> <<>>,
               next |-> None]

ConsumerOff == consumer = NoConsumer

WkOff == wk = [w |-> <<>>, tpm_lock |-> 0, ima_lock |-> 0]

NoCodec == [value |-> None, json |-> JsonNull, lenient |-> FALSE,
            done |-> "no", as_wire |-> JsonNull, as_back |-> Err(ErrOther),
            wire |-> JsonNull, back |-> Err(ErrOther),
            decoded |-> Err(ErrOther), maybe_decoded |-> Err(ErrOther)]

CodecOff == codec = NoCodec

QuoteOff ==
    /\ h = NoRequest /\ resp = None /\ nreq = 0 /\ ima_len = 0 /\ ima_ml = 0
    /\ mb_file = None /\ ConsumerOff /\ WkOff

CpOff == cp = [work_dir |-> <<>>, revocation_cert |-> <<>>, done |-> FALSE,
               result |-> Err(ErrOther)]

----------------------------------------------------------------------------
(* SpecLookup: lookup_action on every action name, set of files and flag *)

LookupNames == {NameA, NameBsh, NameHidden, NameShim, NameAbs, NameDotDot}

InitLookup ==
    /\ \E n \in LookupNames :
         \E fs \in SUBSET (ProbedFiles(n) \cup TextFiles(n) \cup {ShimFile}) :
           \E allow \in BOOLEAN :
             lk = [action |-> n, fs |-> fs, allow |-> allow, done |-> FALSE,
                   result |-> Err(ErrOther)]
    /\ SvcOff /\ EnvOff /\ AlOff /\ CpOff /\ QuoteOff /\ CodecOff

LookupCall ==
    /\ ~lk.done
    /\ lk' = [lk EXCEPT !.done = TRUE,
                        !.result = lookup_action(lk.fs, unzipped, actions_dir,
                                                 lk.action, lk.allow)]
    /\ UNCHANGED <<svcVars, envVars, al, cp, codec, quoteVars>>

NextLookup == LookupCall

SpecLookup == InitLookup /\ [][NextLookup]_vars

----------------------------------------------------------------------------
(* SpecList: the action list of every configuration string and file *)

MaxStrLen == 3

ConfigChars == {"a", "b", " ", ",", "\n"}

FileChars == {"a", "b", " ", "\n", ","}

StringsOver(chars) == UNION {[1..n -> chars] : n \in 0..MaxStrLen}

InitList ==
    /\ \E c \in StringsOver(ConfigChars) :
         \E f \in {None} \cup {Some(t) : t \in StringsOver(FileChars)} :
           al = [config |-> c, file |-> f, done |-> FALSE, list |-> <<>>]
    /\ SvcOff /\ EnvOff /\ LkOff /\ CpOff /\ QuoteOff /\ CodecOff

ComposeList ==
    /\ ~al.done
    /\ al' = [al EXCEPT !.done = TRUE, !.list = ActionList(al.config, al.file)]
    /\ UNCHANGED <<svcVars, envVars, lk, cp, codec, quoteVars>>

NextList == ComposeList

SpecList == InitList /\ [][NextList]_vars

----------------------------------------------------------------------------
(* SpecCert: get_revocation_cert_path on configured values *)

\* values of revocation_cert before whitespace is put around them
CertEntries ==
    { DEFAULT, <<>>, <<"D">> \o Tail(DEFAULT), DEFAULT \o <<"/", "c">>,
      SubSeq(DEFAULT, 1, 6), <<"d", "e", " ">> \o SubSeq(DEFAULT, 3, 7),
      <<"/", "c">>, <<"/", "t", "/", "c">>, <<"/">>, <<"c">>,
      <<"d", "/", "c">>, <<".", ".", "/", "c">>, <<".">>, <<".", "/", "c">> }

Paddings == { <<>>, <<" ">>, <<"\n", " ">>, <<"\t">> }

\* absolute values of work_dir
WorkDirs == { <<"/", "w">>, <<"/">>, <<"/", "w", "/">>, <<"/", "v", "/", "w">> }

InitCert ==
    /\ \E wd \in WorkDirs, e \in CertEntries :
         \E before \in Paddings, after \in Paddings :
           cp = [work_dir |-> wd, revocation_cert |-> before \o e \o after,
                 done |-> FALSE, result |-> Err(ErrOther)]
    /\ SvcOff /\ EnvOff /\ LkOff /\ AlOff /\ QuoteOff /\ CodecOff

CertPathCall ==
    /\ ~cp.done
    /\ cp' = [cp EXCEPT !.done = TRUE,
                        !.result = get_revocation_cert_path(cp.work_dir,
                                                            cp.revocation_cert)]
    /\ UNCHANGED <<svcVars, envVars, lk, al, codec, quoteVars>>

NextCert == CertPathCall

SpecCert == InitCert /\ [][NextCert]_vars

----------------------------------------------------------------------------
(* Spec: the revocation service *)

\* (revocation_actions, action_list) pairs the service is configured with
ListAShim == <<"a", ",", " ">> \o NameShim

ListAAbs == <<"a", "\n">> \o NameAbs \o <<"\n">>

ListABsh == <<" ", "a", "\n">> \o NameBsh

Configs ==
    { <<<<>>, None>>,
      <<ListAShim, None>>,
      <<<<>>, Some(ListAAbs)>>,
      <<<<"a">>, Some(ListABsh)>> }

\* files that may exist on disk
FsUniverse ==
    ProbedFiles(NameA) \cup {ShimFile, Normalize(NameAbs)}

Bodies == [signature : BOOLEAN, msg : BOOLEAN,
           cert : {"unread"}, verified : {"unverified"}, json : {FALSE}]

CertStates == {"ok", "missing", "unloadable", "no_public_key"}

VerifyResults == {"true", "false", "error"}

ChildOutputs ==
    { [code |-> Some(0), stdout |-> "there", stderr |-> ""],
      [code |-> Some(0), stdout |-> "not_utf8", stderr |-> "warning"],
      [code |-> Some(1), stdout |-> "", stderr |-> "failed"],
      [code |-> None, stdout |-> "", stderr |-> ""] }

Init ==
    /\ pc = "recv" /\ nmsg = 0 /\ frame = "none" /\ cur = NoMsg
    /\ action_list = <<>> /\ idx = 1 /\ outputs = <<>> /\ children = {}
    /\ spawned = <<>> /\ tmpfiles = {} /\ ntmp = 0 /\ results = <<>>
    /\ ret = NoRet /\ fail = NoFail /\ reaped = <<>> /\ rej = NoRej
    /\ files \in SUBSET FsUniverse
    /\ allow_payload_actions \in BOOLEAN
    /\ \E c \in Configs : config_actions = c[1] /\ action_file = c[2]
    /\ LkOff /\ AlOff /\ CpOff /\ QuoteOff /\ CodecOff

\* the locals of the previous iteration of the loop are gone
Forget ==
    /\ action_list' = <<>> /\ idx' = 1 /\ outputs' = <<>> /\ spawned' = <<>>
    /\ ret' = NoRet /\ fail' = NoFail /\ reaped' = <<>> /\ rej' = NoRej

\* mysock.recv_string(0) fails, or yields bytes that are not UTF-8
RecvUnreadable ==
    /\ pc = "recv" /\ nmsg < MaxMsgs
    /\ \E kind \in {"recv_error", "not_utf8"} :
         /\ frame' = kind
         /\ pc' = AfterFrame(kind)
    /\ nmsg' = nmsg + 1
    /\ Forget
    /\ UNCHANGED <<cur, children, tmpfiles, ntmp, results, envVars,
                   lk, al, cp, codec, quoteVars>>

\* the frame is a string that serde_json::from_str rejects
RecvNotJson ==
    /\ pc = "recv" /\ nmsg < MaxMsgs
    /\ frame' = "not_json"
    /\ pc' = AfterFrame("not_json")
    /\ nmsg' = nmsg + 1
    /\ Forget
    /\ UNCHANGED <<cur, children, tmpfiles, ntmp, results, envVars,
                   lk, al, cp, codec, quoteVars>>

\* the frame is JSON: its value is handed to process_revocation
RecvBody ==
    /\ pc = "recv" /\ nmsg < MaxMsgs
    /\ frame' = "body"
    /\ pc' = AfterFrame("body")
    /\ nmsg' = nmsg + 1
    /\ \E b \in Bodies : cur' = b
    /\ Forget
    /\ UNCHANGED <<children, tmpfiles, ntmp, results, envVars,
                   lk, al, cp, codec, quoteVars>>

\* process_revocation returns r to the loop
ReturnToLoop(r) ==
    /\ ret' = r
    /\ results' = Append(results, r.ok)
    /\ pc' = AfterProcess(r)
    /\ cur' = NoMsg

\* process_revocation up to the call of run_revocation_actions fails
ProcessReject ==
    /\ pc = "process"
    /\ \E cert \in CertStates, verified \in VerifyResults, json \in BOOLEAN :
         /\ ~Verify(cur, cert, verified, json).ok
         /\ ReturnToLoop(Verify(cur, cert, verified, json))
         /\ rej' = [body |-> cur, cert |-> cert,
                    stage |-> RejectedAt(cur, cert, verified, json)]
    /\ UNCHANGED <<nmsg, frame, action_list, idx, outputs, children, spawned,
                   reaped, tmpfiles, ntmp, fail, envVars,
                   lk, al, cp, codec, quoteVars>>

\* the message is dispatched: run_revocation_actions mounts the secure
\* directory and composes the action list
ProcessAccept ==
    /\ pc = "process"
    /\ \E cert \in CertStates, verified \in VerifyResults, json \in BOOLEAN,
          mounted \in BOOLEAN, readable \in BOOLEAN :
         /\ Verify(cur, cert, verified, json).ok
         /\ IF ~mounted
            THEN /\ ReturnToLoop(Err(ErrSecureMount))
                 /\ UNCHANGED action_list
            ELSE IF action_file.some /\ ~readable
            THEN \* .expect("unable to read action_list")
                 /\ pc' = "panicked"
                 /\ UNCHANGED <<results, ret, cur, action_list>>
            ELSE /\ pc' = "actions"
                 /\ cur' = [cur EXCEPT !.cert = cert, !.verified = verified,
                                       !.json = json]
                 /\ action_list' = ActionList(config_actions, action_file)
                 /\ UNCHANGED <<results, ret>>
    /\ UNCHANGED <<nmsg, frame, idx, outputs, children, spawned, reaped,
                   tmpfiles, ntmp, fail, rej, envVars,
                   lk, al, cp, codec, quoteVars>>

\* run_action fails with e for the idx-th action: the Err(e) arm
ActionFails(e, cause, out) ==
    /\ \E lenient \in BOOLEAN :
         ReturnToLoop(Err(ActionError(action_list[idx], e, lenient)))
    /\ fail' = [k |-> idx, cause |-> cause, out |-> out]

\* run_action up to spawn(), for the next action of the list
RunAction ==
    /\ pc = "actions" /\ idx <= Len(action_list)
    /\ LET action == action_list[idx]
           found == lookup_action(files, unzipped, actions_dir, action,
                                  allow_payload_actions)
           json_path == JsonPath(ntmp + 1)
       IN IF ~found.ok
          THEN /\ ActionFails(found.err, "lookup", NoOutput)
               /\ UNCHANGED <<children, spawned, tmpfiles, ntmp>>
          ELSE \E tmp_ok \in BOOLEAN, exec_ok \in BOOLEAN :
                 IF ~tmp_ok
                 THEN \* NamedTempFile::new_in or keep fails: no file is left
                      /\ ActionFails(ErrIo, "tmpfile", NoOutput)
                      /\ UNCHANGED <<children, spawned, tmpfiles, ntmp>>
                 ELSE LET cmd == CommandLine(found.val, action, json_path,
                                             unzipped, actions_dir)
                          spawn_ok == exec_ok /\ Exists(files, cmd.exe)
                          child == [cmd EXCEPT !.exe = cmd.exe] @@
                                   [k |-> idx, action |-> action,
                                    json_path |-> json_path,
                                    is_python |-> found.val.is_python,
                                    is_payload |-> found.val.is_payload,
                                    script |-> FindScript(files, unzipped,
                                        actions_dir, action,
                                        allow_payload_actions).v.script,
                                    body |-> cur]
                      IN /\ ntmp' = ntmp + 1
                         /\ tmpfiles' = FilesAfterSpawn(tmpfiles \cup {json_path},
                                                        json_path, spawn_ok)
                         /\ IF spawn_ok
                            THEN /\ children' = children \cup {child}
                                 /\ spawned' = Append(spawned, child)
                                 /\ pc' = AfterSpawn
                                 /\ UNCHANGED <<results, ret, cur, fail>>
                            ELSE /\ ActionFails(ErrIo, "spawn", NoOutput)
                                 /\ UNCHANGED <<children, spawned>>
    /\ UNCHANGED <<nmsg, frame, action_list, idx, outputs, reaped, rej,
                   envVars, lk, al, cp, codec, quoteVars>>

\* child.wait_with_output() returns, the file is removed
WaitChild ==
    /\ pc = "wait"
    /\ \E child \in children :
         \E waited \in {Err(ErrIo)} \cup {Ok(o) : o \in ChildOutputs} :
           /\ children' = children \ {child}
           /\ reaped' = Append(reaped, [k |-> child.k, waited |-> waited])
           /\ tmpfiles' = FilesAfterWait(tmpfiles, child.json_path)
           /\ IF AfterWait(waited).ok
              THEN /\ outputs' = PushOutput(outputs, AfterWait(waited).val)
                   /\ idx' = idx + 1
                   /\ pc' = "actions"
                   /\ UNCHANGED <<results, ret, cur, fail>>
              ELSE /\ IF waited.ok
                      THEN ActionFails(AfterWait(waited).err, "exit", waited.val)
                      ELSE ActionFails(AfterWait(waited).err, "wait", NoOutput)
                   /\ UNCHANGED <<outputs, idx>>
    /\ UNCHANGED <<nmsg, frame, action_list, spawned, ntmp, rej, envVars,
                   lk, al, cp, codec, quoteVars>>

\* String::from_utf8(..).unwrap() on a non-empty stdout or stderr
LogsCleanly(outs) ==
    \A i \in 1..Len(outs) :
        outs[i].stdout # "not_utf8" /\ outs[i].stderr # "not_utf8"

\* every action ran: run_revocation_actions returns Ok(outputs), which
\* process_revocation logs
ActionsDone ==
    /\ pc = "actions" /\ idx > Len(action_list)
    /\ IF LogsCleanly(outputs)
       THEN ReturnToLoop(Ok(<<>>))
       ELSE /\ pc' = "panicked"
            /\ UNCHANGED <<results, ret, cur>>
    /\ UNCHANGED <<nmsg, frame, action_list, idx, outputs, children, spawned,
                   reaped, tmpfiles, ntmp, fail, rej, envVars,
                   lk, al, cp, codec, quoteVars>>

Next ==
    \/ RecvUnreadable
    \/ RecvNotJson
    \/ RecvBody
    \/ ProcessReject
    \/ ProcessAccept
    \/ RunAction
    \/ WaitChild
    \/ ActionsDone

Spec == Init /\ [][Next]_vars

----------------------------------------------------------------------------
(* SpecQuote: the quote handlers, one request at a time, while the IMA   *)
(* log grows                                                             *)

MaxReqs == 2

MaxLog == 3

Rep(c, n) == [i \in 1..n |-> c]

Nonces ==
    { <<>>, <<"A", "7">>, Rep("a", MAX_NONCE_SIZE),
      Rep("a", MAX_NONCE_SIZE + 1), <<"a", "!">>, <<"U+00E9">>,
      <<"U+0663", "7">>, Rep("a", MAX_NONCE_SIZE - 1) \o <<"U+00E9">> }

Masks == { <<"0", "x", "1">>, <<"0", "x", "2">>, <<"z">>, <<"0", "x", "!">> }

Partials == { <<"0">>, <<"1">>, <<"2">> }

\* 2^64, the least number that is too large for a u64
TooLarge == [U64MaxDigits EXCEPT ![Len(U64MaxDigits)] = "6"]

ImaEntries ==
    { None, Some(<<"0">>), Some(<<"1">>), Some(<<"3">>), Some(<<"x">>),
      Some(<<>>), Some(<<"-", "1">>), Some(<<"+", "1">>), Some(TooLarge) }

MbFiles == { None, Some(<<1, 2>>) }

InitQuote ==
    /\ h = NoRequest /\ resp = None /\ nreq = 0 /\ ima_len = 0 /\ ima_ml = 0
    /\ mb_file \in MbFiles
    /\ SvcOff /\ EnvOff /\ LkOff /\ AlOff /\ CpOff /\ CodecOff
    /\ ConsumerOff /\ WkOff

\* the handler returns response r; req is the request as it ended
Respond(req, r) ==
    /\ resp' = Some([code    |-> r.code,
                     message |-> r.message,
                     results |-> r.results,
                     wire    |-> IF r.results.some
                                 THEN Some(SerializeKeylimeQuote(r.results.v))
                                 ELSE None,
                     req     |-> req])
    /\ h' = NoRequest

\* the handler goes on to its next call, or returns 200 after the last
Advance(req) ==
    IF StepAfter(IntegritySteps, req.step) = "respond"
    THEN Respond(req, Success200(Envelope(req)))
    ELSE /\ h' = [req EXCEPT !.step = StepAfter(IntegritySteps, req.step)]
         /\ UNCHANGED resp

\* identity, up to the call of tpm::quote
ReceiveIdentity ==
    /\ h.step = "idle" /\ resp = None /\ nreq < MaxReqs
    /\ nreq' = nreq + 1
    /\ \E nonce \in Nonces :
         LET req == [NoRequest EXCEPT !.kind = "identity", !.nonce = nonce,
                                      !.step = "checks", !.ima_ml0 = ima_ml,
                                      !.log = identity_log(nonce)]
         IN IF ~identity_checks(nonce).ok
            THEN Respond(req, identity_checks(nonce).err)
            ELSE /\ h' = [req EXCEPT !.step = "quote"]
                 /\ resp' = None
    /\ UNCHANGED <<ima_len, ima_ml, mb_file, revVars, consumer, wk>>

\* integrity on the parameters of a request, up to its first call out
IntegrityBegins(nonce, mask, partial, ima_ml_entry, pem_ok) ==
    LET req == [NoRequest EXCEPT !.kind = "integrity", !.nonce = nonce,
                                 !.mask = Some(mask), !.partial = partial,
                                 !.ima_ml_entry = ima_ml_entry,
                                 !.step = "checks", !.ima_ml0 = ima_ml,
                                 !.log = integrity_log(nonce, mask, partial,
                                                       pem_ok)]
        pubkey == integrity_pubkey(partial, pem_ok)
    IN IF ~integrity_checks(nonce, mask).ok
       THEN Respond(req, integrity_checks(nonce, mask).err)
       ELSE IF ~pubkey.ok
       THEN Respond([req EXCEPT !.pem = pem_of(partial, pem_ok)], pubkey.err)
       ELSE /\ h' = [req EXCEPT !.pubkey = pubkey.val,
                                !.pem = pem_of(partial, pem_ok),
                                !.nth_entry = nth_entry_of(ima_ml_entry),
                                !.step = IntegritySteps[1]]
            /\ resp' = None

\* integrity is called with the parameters of any request
ReceiveIntegrity ==
    /\ h.step = "idle" /\ resp = None /\ nreq < MaxReqs
    /\ nreq' = nreq + 1
    /\ \E nonce \in Nonces, mask \in Masks, partial \in Partials,
          ima_ml_entry \in ImaEntries, pem_ok \in BOOLEAN :
         IntegrityBegins(nonce, mask, partial, ima_ml_entry, pem_ok)
    /\ UNCHANGED <<ima_len, ima_ml, mb_file, revVars, consumer, wk>>

\* tpm::quote returns; identity then exports the public key and responds
TpmQuote ==
    /\ h.step = "quote"
    /\ \E tpm_ok \in BOOLEAN, pem_ok \in BOOLEAN :
         LET q == tpm_quote(h.nonce, h.mask, tpm_ok)
             called == [h EXCEPT !.calls = Append(@, [nonce |-> h.nonce,
                                                       mask  |-> h.mask]),
                                 !.quoted = Some(ima_len)]
         IN IF ~q.ok
            THEN Respond(called, InternalServerError("Unable to retrieve quote"))
            ELSE IF h.kind = "identity"
            THEN IF identity_pubkey(q.val, pem_ok).ok
                 THEN Respond([called EXCEPT !.id_quote = Some(q.val),
                                             !.pubkey = Some(PEM),
                                             !.pem = "ok"],
                              Success200(identity_pubkey(q.val, pem_ok).val))
                 ELSE Respond([called EXCEPT !.pem = "failed"],
                              identity_pubkey(q.val, pem_ok).err)
            ELSE Advance([called EXCEPT !.id_quote = Some(q.val)])
    /\ UNCHANGED <<nreq, ima_len, ima_ml, mb_file, revVars, consumer, wk>>

\* tpm::check_mask for PCR 0 and, when it is set, the read of the
\* measured-boot log
CheckMask ==
    /\ h.step = "check_mask"
    /\ \E read_ok \in BOOLEAN :
         LET m == check_mask(h.mask.v)
             masked == m.ok /\ m.val
             mb_read == mb_read_of(masked, mb_file, read_ok)
             checked == [h EXCEPT
                    !.check = IF ~m.ok THEN "error"
                              ELSE IF m.val THEN "set" ELSE "unset",
                    !.reads = IF masked THEN Append(@, "mb") ELSE @,
                    !.mb_read = mb_read,
                    !.log = IF mb_read = "failed"
                            THEN Append(@, Warn(<<MbPath>>)) ELSE @,
                    !.mb_measurement_list =
                        measured_boot(masked, mb_file, read_ok)]
         IN IF ~check_mask_arms(m, mb_read).ok
            THEN Respond(checked, check_mask_arms(m, mb_read).err)
            ELSE Advance(checked)
    /\ UNCHANGED <<nreq, ima_len, ima_ml, mb_file, revVars, consumer, wk>>

\* read_measurement_list under the lock of the reader state
ReadIma ==
    /\ h.step = "read_ima"
    /\ \E readable \in BOOLEAN :
         LET r == read_measurement_list(ima_len, h.nth_entry, readable)
             read == [h EXCEPT !.reads = Append(@, "ima")]
         IN IF ~r.ok
            THEN /\ Respond(read, InternalServerError("Unable to retrieve quote"))
                 /\ UNCHANGED ima_ml
            ELSE /\ ima_ml' = r.val.num
                 /\ Advance([read EXCEPT !.ima = Some(r.val)])
    /\ UNCHANGED <<nreq, ima_len, mb_file, revVars, consumer, wk>>

\* the response is written to the connection
SendResponse ==
    /\ resp # None
    /\ resp' = None
    /\ UNCHANGED <<h, nreq, ima_len, ima_ml, mb_file, revVars, consumer, wk>>

\* the kernel appends an entry to the IMA log
GrowLog ==
    /\ ima_len < MaxLog
    /\ ima_len' = ima_len + 1
    /\ UNCHANGED <<h, resp, nreq, ima_ml, mb_file, revVars, consumer, wk>>

NextQuote ==
    \/ ReceiveIdentity
    \/ ReceiveIntegrity
    \/ TpmQuote
    \/ CheckMask
    \/ ReadIma
    \/ SendResponse
    \/ GrowLog

SpecQuote == InitQuote /\ [][NextQuote]_vars

----------------------------------------------------------------------------
(* SpecLocks: handlers of concurrent requests, and the locks of the TPM  *)
(* context and of the IMA reader state                                   *)

MaxWorkers == 2

\* the threads that run handlers
Workers == 1..MaxWorkers

IdleWorker == [kind |-> "none", step |-> "idle", code |-> 0]

ima_guard_kept_on_error(read_ok) == read_ok

\* the guard of data.ima_ml.lock() is a temporary of the `let .. = match
\* read_measurement_list(..) { .. };` statement: it is dropped when the
\* statement ends and when its Err arm returns
ima_guard_dropped(read_ok) == TRUE

InitLocks ==
    /\ wk = [w |-> [i \in Workers |-> IdleWorker], tpm_lock |-> 0,
             ima_lock |-> 0]
    /\ h = NoRequest /\ resp = None /\ nreq = 0 /\ ima_len = 0 /\ ima_ml = 0
    /\ mb_file = None /\ ConsumerOff
    /\ SvcOff /\ EnvOff /\ LkOff /\ AlOff /\ CpOff /\ CodecOff

\* worker i is at `step`, with response code `code` once it has one
At(i, step, code) ==
    wk' = [wk EXCEPT !.w[i].step = step, !.w[i].code = code]

\* a request arrives at worker i: the handler answers 400, or 500 when
\* integrity cannot export the public key, or goes on to tpm::quote
Arrive(i) ==
    /\ wk.w[i].step = "idle"
    /\ \E kind \in {"identity", "integrity"}, code \in {0, 400, 500} :
         /\ code = 500 => kind = "integrity"
         /\ wk' = [wk EXCEPT !.w[i] =
                      [kind |-> kind,
                       step |-> IF code = 0 THEN IntegritySteps[1]
                                ELSE "respond",
                       code |-> code]]
    /\ UNCHANGED <<revVars, h, resp, nreq, ima_len, ima_ml, mb_file, consumer>>

\* tpm::quote takes the lock of the TPM context
LockTpm(i) ==
    /\ wk.w[i].step = "quote" /\ wk.tpm_lock = 0
    /\ wk' = [wk EXCEPT !.w[i].step = "quoting", !.tpm_lock = i]
    /\ UNCHANGED <<revVars, h, resp, nreq, ima_len, ima_ml, mb_file, consumer>>

\* tpm::quote returns and has released the lock; identity then exports
\* the public key and responds
QuoteReturns(i) ==
    /\ wk.w[i].step = "quoting"
    /\ \E tpm_ok \in BOOLEAN, pem_ok \in BOOLEAN :
         LET next == IF ~tpm_ok THEN "respond"
                     ELSE IF wk.w[i].kind = "identity" THEN "respond"
                     ELSE StepAfter(IntegritySteps, "quote")
             code == IF ~tpm_ok THEN 500
                     ELSE IF wk.w[i].kind = "identity"
                     THEN (IF pem_ok THEN 200 ELSE 500)
                     ELSE 0
         IN wk' = [wk EXCEPT !.w[i].step = next, !.w[i].code = code,
                             !.tpm_lock = 0]
    /\ UNCHANGED <<revVars, h, resp, nreq, ima_len, ima_ml, mb_file, consumer>>

\* tpm::check_mask, which is given no TPM context, and the read of the
\* measured-boot log
CheckMaskReturns(i) ==
    /\ wk.w[i].step = "check_mask"
    /\ \E mask_ok \in BOOLEAN :
         IF mask_ok THEN At(i, StepAfter(IntegritySteps, "check_mask"), 0)
         ELSE At(i, "respond", 500)
    /\ UNCHANGED <<revVars, h, resp, nreq, ima_len, ima_ml, mb_file, consumer>>

\* data.ima_ml.lock().unwrap()
LockIma(i) ==
    /\ wk.w[i].step = "read_ima" /\ wk.ima_lock = 0
    /\ wk' = [wk EXCEPT !.w[i].step = "reading", !.ima_lock = i]
    /\ UNCHANGED <<revVars, h, resp, nreq, ima_len, ima_ml, mb_file, consumer>>

\* read_measurement_list returns and the match statement ends
ReadReturns(i) ==
    /\ wk.w[i].step = "reading"
    /\ \E read_ok \in BOOLEAN :
         wk' = [wk EXCEPT
                  !.w[i].step = StepAfter(IntegritySteps, "read_ima"),
                  !.w[i].code = IF read_ok THEN 200 ELSE 500,
                  !.ima_lock = IF ima_guard_dropped(read_ok) THEN 0 ELSE @]
    /\ UNCHANGED <<revVars, h, resp, nreq, ima_len, ima_ml, mb_file, consumer>>

\* the handler returns its response
Responds(i) ==
    /\ wk.w[i].step = "respond"
    /\ wk' = [wk EXCEPT !.w[i] = IdleWorker]
    /\ UNCHANGED <<revVars, h, resp, nreq, ima_len, ima_ml, mb_file, consumer>>

NextLocks ==
    \/ \E i \in Workers : Arrive(i)
    \/ \E i \in Workers : LockTpm(i)
    \/ \E i \in Workers : QuoteReturns(i)
    \/ \E i \in Workers : CheckMaskReturns(i)
    \/ \E i \in Workers : LockIma(i)
    \/ \E i \in Workers : ReadReturns(i)
    \/ \E i \in Workers : Responds(i)

SpecLocks == InitLocks /\ [][NextLocks]_vars

\* the TPM and file operations return and a handler that runs goes on;
\* a thread that waits for a lock gets it when the lock is released often
\* enough (requests are served in arrival order at the lock)
LocksFairness ==
    \A i \in Workers :
        /\ WF_vars(QuoteReturns(i))
        /\ WF_vars(CheckMaskReturns(i))
        /\ WF_vars(ReadReturns(i))
        /\ WF_vars(Responds(i))
        /\ SF_vars(LockTpm(i))
        /\ SF_vars(LockIma(i))

SpecLocksFair == SpecLocks /\ LocksFairness

----------------------------------------------------------------------------
(* SpecCodec: the base64 codec on byte strings and on JSON values *)

MaxBytes == 4

ByteValues == {0, 1, 77, 255}

ByteStrings == UNION {[1..n -> ByteValues] : n \in 0..MaxBytes}

\* texts a peer may send where base64 is expected
Texts ==
    { <<>>, <<"A", "Q", "I", "=">>, <<"A", "Q", "I">>, <<"A", "Q", "J", "=">>,
      <<"A">>, <<"A", "!", "=", "=">>, <<"=", "A", "Q", "I">>,
      <<"A", "Q", "=", "=">>, <<"A", "R", "=", "=">>, <<"A", "Q", "=">>,
      <<"A", "Q", "I", "D">>, <<"A", "Q", "I", "D", "B">>,
      <<"A", "Q", "I", "D", "/", "w", "=", "=">>, <<"U+00E9", "Q", "I", "=">>,
      <<"A", " ", "Q", "I">> }

JsonInputs == {JsonNull, JsonTrue} \cup {JsonString(t) : t \in Texts}

InitCodec ==
    /\ \E value \in {None} \cup {Some(b) : b \in ByteStrings},
          json \in JsonInputs, lenient \in BOOLEAN :
         codec = [NoCodec EXCEPT !.value = value, !.json = json,
                                 !.lenient = lenient]
    /\ SvcOff /\ EnvOff /\ LkOff /\ AlOff /\ CpOff /\ QuoteOff

\* the value is serialized and what was written is deserialized
CodecRoundTrip ==
    /\ codec.done = "no"
    /\ codec' = [codec EXCEPT
          !.done = "round_trip",
          !.as_wire = IF codec.value.some
                      THEN serialize_as_base64(codec.value.v) ELSE @,
          !.as_back = IF codec.value.some
                      THEN deserialize_as_base64(
                               serialize_as_base64(codec.value.v), codec.lenient)
                      ELSE @,
          !.wire = serialize_maybe_base64(codec.value),
          !.back = deserialize_maybe_base64(
                       serialize_maybe_base64(codec.value), codec.lenient)]
    /\ UNCHANGED <<svcVars, envVars, lk, al, cp, quoteVars>>

\* a JSON value received from a peer is deserialized
CodecDecode ==
    /\ codec.done = "no"
    /\ codec' = [codec EXCEPT
          !.done = "decode",
          !.decoded = deserialize_as_base64(codec.json, codec.lenient),
          !.maybe_decoded = deserialize_maybe_base64(codec.json, codec.lenient)]
    /\ UNCHANGED <<svcVars, envVars, lk, al, cp, quoteVars>>

NextCodec ==
    \/ CodecRoundTrip
    \/ CodecDecode

SpecCodec == InitCodec /\ [][NextCodec]_vars

----------------------------------------------------------------------------
(* SpecReplay: a verifier attests incrementally, one integrity request   *)
(* after the other, while the IMA log grows                              *)

\* how the verifier chooses its next ima_ml_entry: "offset", the starting
\* offset of the last response; "advance", that offset plus the number of
\* entries the response carried
Strategies == {"offset", "advance"}

\* the verifier after a 200 response carrying `quote`
Replayed(c, quote) ==
    LET slice == IF quote.ima_measurement_list.some
                 THEN quote.ima_measurement_list.v ELSE <<>>
        offset == quote.ima_measurement_list_entry
        from == IF offset.some THEN offset.v ELSE 0
    IN [c EXCEPT !.replay = @ \o slice,
                 !.got = Append(@, offset),
                 !.next = IF c.strategy = "offset" THEN offset
                          ELSE Some(from + Len(slice))]

InitReplay ==
    /\ h = NoRequest /\ resp = None /\ nreq = 0 /\ ima_len = 0 /\ ima_ml = 0
    /\ mb_file \in MbFiles
    /\ \E s \in Strategies : consumer = [NoConsumer EXCEPT !.strategy = s]
    /\ SvcOff /\ EnvOff /\ LkOff /\ AlOff /\ CpOff /\ CodecOff /\ WkOff

\* the verifier asks for a quote from the entry it has reached
ConsumerRequest ==
    /\ h.step = "idle" /\ resp = None /\ nreq < MaxReqs
    /\ nreq' = nreq + 1
    /\ \E mask \in {<<"0", "x", "1">>, <<"0", "x", "2">>},
          partial \in {<<"0">>, <<"1">>}, pem_ok \in BOOLEAN :
         IntegrityBegins(<<"A", "7">>, mask, partial,
                         IF consumer.next.some
                         THEN Some(ToDecimal(consumer.next.v)) ELSE None,
                         pem_ok)
    /\ UNCHANGED <<ima_len, ima_ml, mb_file, revVars, consumer, wk>>

\* the verifier reads the response and appends the slice of a 200
ConsumerReceives ==
    /\ resp # None
    /\ resp' = None
    /\ consumer' = IF resp.v.code = 200
                   THEN Replayed(consumer, resp.v.results.v)
                   ELSE consumer
    /\ UNCHANGED <<h, nreq, ima_len, ima_ml, mb_file, revVars, wk>>

NextReplay ==
    \/ ConsumerRequest
    \/ TpmQuote
    \/ CheckMask
    \/ ReadIma
    \/ ConsumerReceives
    \/ GrowLog

SpecReplay == InitReplay /\ [][NextReplay]_vars

----------------------------------------------------------------------------
(* Claims about the revocation service (Spec) *)

Dispatchable(b) ==
    b.signature /\ b.msg /\ b.cert = "ok" /\ b.verified = "true" /\ b.json

\* C1: a subprocess is spawned for a message, and run_revocation_actions
\* entered, only if the message carries signature and msg, the certificate
\* loaded, asym_verify returned Ok(true) and msg parsed as JSON.
C1_SpawnOnlyVerified ==
    /\ \A i \in 1..Len(spawned) : Dispatchable(spawned[i].body)
    /\ \A c \in children : Dispatchable(c.body)
    /\ pc \in {"actions", "wait"} => Dispatchable(cur)

\* a rejected message spawned nothing and the next, verified one spawned
C1_Witness ==
    /\ results = <<FALSE>> /\ nmsg = 2
    /\ spawned # <<>>

\* C2: with allow_payload_actions false, no spawned executable is a path
\* under payload_dir.
C2_NoPayloadExecutable ==
    ~allow_payload_actions =>
        \A i \in 1..Len(spawned) : ~IsUnder(spawned[i].exe, unzipped)

\* C3 (as amended): every action resolved as interpreted is spawned as
\* actions_dir/shim.py with argv [action_name, json_path].
C3_ShimForInterpreted ==
    \A i \in 1..Len(spawned) :
        spawned[i].is_python =>
            /\ spawned[i].exe = actions_dir \o <<"/">> \o SHIM_PY
            /\ spawned[i].argv = <<spawned[i].action, spawned[i].json_path>>
            /\ spawned[i].json_path \in tmpfiles \/ spawned[i] \notin children

\* C3 (as claimed): the same, and the resolved .py script is never the
\* spawned executable.
C3_ScriptNeverSpawned ==
    \A i \in 1..Len(spawned) :
        spawned[i].is_python =>
            /\ spawned[i].exe = actions_dir \o <<"/">> \o SHIM_PY
            /\ spawned[i].argv = <<spawned[i].action, spawned[i].json_path>>
            /\ spawned[i].exe # spawned[i].script

\* a payload-sourced interpreted action has been spawned
C3_Witness ==
    \E i \in 1..Len(spawned) :
        /\ spawned[i].is_python /\ spawned[i].is_payload
        /\ IsUnder(spawned[i].script, unzipped)

\* C6: once run_action has returned, the temporary JSON file it created is
\* gone; no temporary file is left behind.
C6_TempFileRemoved == pc # "wait" => tmpfiles = {}

\* C7: an unreadable or non-JSON frame is skipped, the loop goes on to
\* await the next message.
C7_BadFrameSkipped ==
    frame \in {"recv_error", "not_utf8", "not_json"} => pc = "recv"

\* C8: whatever error process_revocation returns, the subscriber loop is
\* back at receiving the next message.
C8_ErrorsKeepLoop == (ret # NoRet /\ ~ret.ok) => pc = "recv"

\* the message after one that process_revocation failed on was processed
C8_Witness == results = <<FALSE, TRUE>>

FailedAt(k) ==
    /\ ~ret.ok /\ pc = "recv" /\ children = {}
    /\ Len(outputs) = k - 1
    /\ \A i \in 1..(k - 1) : Success(outputs[i])
    /\ Len(spawned) \in {k - 1, k}
    /\ \A i \in 1..Len(spawned) :
         spawned[i].k = i /\ spawned[i].action = action_list[i]

ReturnsOutputs == pc = "actions" /\ idx > Len(action_list)

\* the number of entries the configuration and action_list contribute
EntryCount ==
    Len(Scripts(config_actions, ","))
        + (IF action_file.some THEN Len(Scripts(action_file.v, "\n")) ELSE 0)

\* C11: when every action succeeds run_revocation_actions returns Ok with
\* one output per entry of the effective list, the i-th output being what
\* the i-th action produced; with no action_list and an empty configured
\* list it returns Ok with no output and spawns nothing.
C11_OneOutputPerAction ==
    /\ ReturnsOutputs =>
         /\ Len(action_list) = EntryCount
         /\ Len(outputs) = Len(action_list)
         /\ Len(spawned) = Len(action_list)
         /\ Len(reaped) = Len(action_list)
         /\ \A i \in 1..Len(action_list) :
              /\ spawned[i].k = i /\ spawned[i].action = action_list[i]
              /\ reaped[i].k = i /\ reaped[i].waited = Ok(outputs[i])
              /\ Success(outputs[i])
    /\ (ReturnsOutputs /\ config_actions = <<>> /\ ~action_file.some) =>
         outputs = <<>> /\ spawned = <<>> /\ children = {}
    /\ (pc = "recv" /\ action_list # <<>> /\ fail = NoFail) => ret.ok

\* two actions succeeded with different outputs
C11_Witness ==
    /\ ReturnsOutputs /\ Len(outputs) = 2
    /\ outputs[1] # outputs[2]

\* C12: at most one action child is alive, an action is spawned only
\* after every earlier one was reaped, and the loop is at receiving or
\* verifying a message only when no child of an earlier one is alive.
C12_StrictlySequential ==
    /\ Cardinality(children) <= 1
    /\ children # {} => pc = "wait" /\ children = {Last(spawned)}
    /\ pc = "wait" => children # {}
    /\ \A i \in 1..Len(spawned) :
         (i < Len(spawned) \/ pc # "wait") =>
             /\ spawned[i] \notin children
             /\ i <= Len(reaped) /\ reaped[i].k = spawned[i].k
    /\ pc = "recv" => cur = NoMsg /\ Len(reaped) = Len(spawned)
    /\ pc \in {"recv", "process"} => children = {}

\* the second action of the second message runs, all earlier ones reaped
C12_Witness ==
    /\ nmsg = 2 /\ results = <<TRUE>>
    /\ Len(spawned) = 2 /\ Len(reaped) = 1 /\ Cardinality(children) = 1

----------------------------------------------------------------------------
(* Claims about get_revocation_cert_path (SpecCert) *)

\* Path equality: same root, same components
PathEq(p, q) ==
    IsAbsolute(p) = IsAbsolute(q) /\ Components(p) = Components(q)

TrimmedCert == Trim(cp.revocation_cert)

\* the four cases of the trimmed entry, as conditions on it
CertCases ==
    << TrimmedCert = DEFAULT,
       TrimmedCert = <<>>,
       IsAbsolute(TrimmedCert),
       TrimmedCert # <<>> /\ TrimmedCert # DEFAULT /\ ~IsAbsolute(TrimmedCert) >>

\* C13: with r the trimmed revocation_cert and an absolute work_dir, the
\* result is work_dir/secure/unzipped/REV_CERT for "default", a
\* Configuration error for the empty string, r for an absolute r and
\* work_dir/r for any other r; exactly one of the cases applies.
C13_CertPathCases ==
    cp.done =>
        /\ CertCases[1] =>
             /\ cp.result.ok
             /\ PathEq(cp.result.val,
                        Join(Join(Join(cp.work_dir, SECURE), UNZIPPED), REV_CERT))
        /\ CertCases[2] => cp.result = Err(ErrConfiguration)
        /\ CertCases[3] => cp.result = Ok(TrimmedCert)
        /\ CertCases[4] =>
             /\ cp.result.ok
             /\ PathEq(cp.result.val, cp.work_dir \o <<"/">> \o TrimmedCert)
        /\ Cardinality({i \in 1..4 : CertCases[i]}) = 1

\* a relative entry written with whitespace around it was expanded
C13_Witness ==
    /\ cp.done /\ CertCases[4] /\ TrimmedCert # cp.revocation_cert
    /\ cp.result.ok /\ cp.result.val # TrimmedCert

----------------------------------------------------------------------------
(* Claims about the quote handlers (SpecQuote) *)

\* the last response is a 200 / a 200 of the integrity handler
Is200 == resp # None /\ resp.v.code = 200

Integrity200 == Is200 /\ resp.v.req.kind = "integrity"

\* C14: in a 200 response pubkey is present exactly when the request is
\* the identity variant or partial is "0"; with partial "1" it is absent.
C14_PubkeyIffNotPartial ==
    Is200 =>
        /\ resp.v.results.v.pubkey.some <=>
               (resp.v.req.kind = "identity" \/ resp.v.req.partial = <<"0">>)
        /\ resp.v.wire.v.pubkey # JsonNull <=> resp.v.results.v.pubkey.some
        /\ (resp.v.req.kind = "integrity" /\ resp.v.req.partial = <<"1">>) =>
               resp.v.results.v.pubkey = None

\* an integrity request with partial "1" was answered 200
C14_Witness == Integrity200 /\ resp.v.req.partial = <<"1">>

\* the request asks for the full log: no ima_ml_entry, or one that does
\* not parse, or one that parses to 0
AsksFullLog(req) ==
    \/ ~req.ima_ml_entry.some
    \/ ~ParseU64(req.ima_ml_entry.v).some
    \/ ParseU64(req.ima_ml_entry.v).v = 0

\* the returned slice begins at 0-based offset n of the log
SliceBeginsAt(ml, n, total) ==
    IF ml.some THEN ml.v # <<>> /\ ml.v[1] = n + 1 ELSE n = total

\* C15 (as amended): in a 200 integrity response
\* ima_measurement_list_entry is null exactly when the request asks for
\* the full log (parameter missing, "0" or unparseable); otherwise it is
\* the offset at which the returned slice begins.
C15_EntryNullIffFullLog ==
    Integrity200 =>
        LET q == resp.v.results.v
        IN /\ q.ima_measurement_list_entry = None <=> AsksFullLog(resp.v.req)
           /\ AsksFullLog(resp.v.req) =>
                  q.ima_measurement_list
                      = Some(LogEntries(0, resp.v.req.ima.v.num))
           /\ ~AsksFullLog(resp.v.req) =>
                  SliceBeginsAt(q.ima_measurement_list,
                                q.ima_measurement_list_entry.v,
                                resp.v.req.ima.v.num)

\* C15 (as claimed): the field is null exactly when the request carried
\* no ima_ml_entry; whenever one was supplied it is non-null and is the
\* offset at which the returned slice begins.
C15_EntryNullIffAbsent ==
    Integrity200 =>
        LET q == resp.v.results.v
        IN /\ q.ima_measurement_list_entry = None <=>
                  ~resp.v.req.ima_ml_entry.some
           /\ resp.v.req.ima_ml_entry.some =>
                  /\ q.ima_measurement_list_entry.some
                  /\ SliceBeginsAt(q.ima_measurement_list,
                                   q.ima_measurement_list_entry.v,
                                   resp.v.req.ima.v.num)

\* a request for the entries from offset 1 on was answered with them
C15_Witness ==
    /\ Integrity200 /\ resp.v.req.ima_ml_entry = Some(<<"1">>)
    /\ resp.v.results.v.ima_measurement_list_entry = Some(1)
    /\ resp.v.results.v.ima_measurement_list.some

\* C16: in a 200 integrity response mb_measurement_list is present
\* exactly when check_mask found PCR 0 in the mask and the read of the
\* measured-boot log succeeded, and then holds the bytes read; it is
\* absent when bit 0 is not set, whether or not the file exists.
C16_MeasuredBootIffMasked ==
    Integrity200 =>
        LET mb == resp.v.results.v.mb_measurement_list
        IN /\ mb.some <=>
                  (resp.v.req.check = "set" /\ resp.v.req.mb_read = "ok")
           /\ mb.some => mb_file.some /\ mb.v = mb_file.v
           /\ resp.v.req.check = "unset" =>
                  mb = None /\ resp.v.req.reads = <<"ima">>

\* the measured-boot log was attached
C16_Witness ==
    /\ Integrity200 /\ resp.v.results.v.mb_measurement_list.some
    /\ resp.v.req.mask.v = <<"0", "x", "1">>

\* C17: on the wire mb_measurement_list is the padded standard base64
\* string of the bytes when present and null when absent.
C17_MeasuredBootBase64 ==
    Is200 =>
        resp.v.wire.v.mb_measurement_list
            = serialize_maybe_base64(resp.v.results.v.mb_measurement_list)

IsAsciiAlphanumeric(str) ==
    \A i \in 1..Len(str) : str[i] \in AsciiLetters \cup AsciiDigits

\* the calls of tpm::quote made for the request under way or just answered
QuoteCalls ==
    Range(h.calls) \cup (IF resp # None THEN Range(resp.v.req.calls) ELSE {})

\* C18: only a nonce, and for integrity a mask, made of ASCII letters and
\* digits reaches tpm::quote; any other one is answered 400 before any
\* call of the TPM.
C18_OnlyAsciiReachesTpm ==
    /\ \A call \in QuoteCalls :
         /\ IsAsciiAlphanumeric(call.nonce)
         /\ call.mask.some => IsAsciiAlphanumeric(call.mask.v)
    /\ resp # None =>
         ((\/ ~IsAsciiAlphanumeric(resp.v.req.nonce)
           \/ (resp.v.req.mask.some /\ ~IsAsciiAlphanumeric(resp.v.req.mask.v)))
          => resp.v.code = 400 /\ resp.v.req.calls = <<>>)

\* the request violates a precondition of its handler
ViolatesPrecondition(req) ==
    \/ ~IsAsciiAlphanumeric(req.nonce)
    \/ Len(req.nonce) > MAX_NONCE_SIZE
    \/ req.kind = "integrity" /\ ~IsAsciiAlphanumeric(req.mask.v)
    \/ req.kind = "integrity" /\ req.partial \notin {<<"0">>, <<"1">>}

\* C19: a request that violates a precondition is answered 400 without a
\* call of tpm::quote, a file read or a change of the IMA reader state; a
\* nonce of MAX_NONCE_SIZE characters passes, one more does not.
C19_RejectedWithoutEffect ==
    /\ h.step # "idle" => ~ViolatesPrecondition(h)
    /\ resp # None =>
         /\ ViolatesPrecondition(resp.v.req) =>
              /\ resp.v.code = 400
              /\ resp.v.req.calls = <<>> /\ resp.v.req.reads = <<>>
              /\ ima_ml = resp.v.req.ima_ml0
         /\ (/\ resp.v.code = 400 /\ Len(resp.v.req.nonce) = MAX_NONCE_SIZE
             /\ IsAsciiAlphanumeric(resp.v.req.nonce)) =>
              ViolatesPrecondition([resp.v.req EXCEPT !.nonce = <<>>])
         /\ Len(resp.v.req.nonce) = MAX_NONCE_SIZE + 1 => resp.v.code = 400

IsPrefixOf(s, t) == Len(s) <= Len(t) /\ SubSeq(t, 1, Len(s)) = s

\* C20: integrity reads the IMA log only after tpm::quote has returned,
\* so a full-log answer holds, as a prefix, every entry the log had when
\* the quote was taken.
C20_QuotedEntriesReturned ==
    /\ h.step = "read_ima" => h.quoted.some
    /\ (Integrity200 /\ resp.v.req.nth_entry = 0) =>
         /\ resp.v.req.quoted.some
         /\ IsPrefixOf(LogEntries(0, resp.v.req.quoted.v),
                       resp.v.results.v.ima_measurement_list.v)

\* the log grew between the quote and the read of a full-log request
C20_Witness ==
    /\ Integrity200 /\ resp.v.req.nth_entry = 0
    /\ resp.v.req.quoted.v > 0
    /\ Len(resp.v.results.v.ima_measurement_list.v) > resp.v.req.quoted.v

----------------------------------------------------------------------------
(* Claims about lookup_action (SpecLookup) *)

\* the candidates of the resolution ladder, read as text: dir/a, dir/a.py
LadderPaths(a) ==
    << [script |-> actions_dir \o <<"/">> \o a,
        is_python |-> FALSE, is_payload |-> FALSE],
       [script |-> unzipped \o <<"/">> \o a,
        is_python |-> FALSE, is_payload |-> TRUE],
       [script |-> actions_dir \o <<"/">> \o a \o <<".">> \o PY,
        is_python |-> TRUE, is_payload |-> FALSE],
       [script |-> unzipped \o <<"/">> \o a \o <<".">> \o PY,
        is_python |-> TRUE, is_payload |-> TRUE] >>

LadderHits(a, fs, allow) ==
    LET Hit(c) == (allow \/ ~c.is_payload) /\ Normalize(c.script) \in fs
    IN SelectSeq(LadderPaths(a), Hit)

\* C4: lookup_action returns the first existing candidate of the ladder
\* actions_dir/a, payload_dir/a, actions_dir/a.py, payload_dir/a.py, payload
\* candidates skipped when not allowed, and NotFound 'Could not find action
\* a' exactly when no remaining candidate exists. Stated for the action
\* names that have a file name (the others fail before the ladder).
C4_FirstCandidateOfLadder ==
    (lk.done /\ FileName(lk.action).some) =>
        LET hits == LadderHits(lk.action, lk.fs, lk.allow)
        IN IF hits = <<>>
           THEN ~lk.result.ok /\ lk.result.err = ErrNotFound(lk.action)
           ELSE /\ lk.result.ok
                /\ lk.result.val.is_python = hits[1].is_python
                /\ lk.result.val.is_payload = hits[1].is_payload
                /\ ~hits[1].is_python => lk.result.val.command = hits[1].script

\* the candidates as lookup_action builds them
Probe(i) ==
    possible_paths(unzipped, actions_dir, lk.action,
                   SetExtension(lk.action, PY).v)[i].script

OnDisk(i) == Normalize(Probe(i)) \in lk.fs

NativePreinstalled == 1

NativePayload == 2

PythonPreinstalled == 3

PythonPayload == 4

Resolved == lk.done /\ lk.result.ok

\* C5 (as claimed): an existing pre-installed candidate (native or .py)
\* keeps the resolved action from being payload-sourced, and an existing
\* native candidate keeps the .py candidate of its directory from being
\* chosen.
C5_PreinstalledShadowsPayload ==
    Resolved =>
        /\ (OnDisk(NativePreinstalled) \/ OnDisk(PythonPreinstalled))
               => ~lk.result.val.is_payload
        /\ OnDisk(NativePreinstalled)
               => ~(lk.result.val.is_python /\ ~lk.result.val.is_payload)
        /\ OnDisk(NativePayload)
               => ~(lk.result.val.is_python /\ lk.result.val.is_payload)

\* C5 (as amended): pre-installed shadows payload among candidates of the
\* same kind, and native shadows .py: an existing actions_dir/a is the
\* action resolved; an interpreted action is resolved only when no native
\* candidate that may be used exists, and is payload-sourced only when
\* actions_dir/a.py does not exist; an existing native candidate keeps the
\* .py candidate of its directory from being chosen.
C5_ShadowingWithinKind ==
    (lk.done /\ SetExtension(lk.action, PY).some) =>
        /\ OnDisk(NativePreinstalled)
               => /\ lk.result.ok
                  /\ ~lk.result.val.is_python /\ ~lk.result.val.is_payload
                  /\ lk.result.val.command = Probe(NativePreinstalled)
        /\ (lk.result.ok /\ lk.result.val.is_python)
               => /\ ~OnDisk(NativePreinstalled)
                  /\ ~(lk.allow /\ OnDisk(NativePayload))
                  /\ OnDisk(PythonPreinstalled) => ~lk.result.val.is_payload
        /\ (lk.result.ok /\ OnDisk(NativePayload))
               => ~(lk.result.val.is_python /\ lk.result.val.is_payload)

\* a payload native script was resolved although actions_dir/a.py exists
C5_Witness ==
    /\ Resolved /\ lk.action = NameA
    /\ OnDisk(PythonPreinstalled) /\ OnDisk(NativePayload)
    /\ lk.result.val.is_payload /\ ~lk.result.val.is_python

----------------------------------------------------------------------------
(* Claims about the action list (SpecList) *)

\* positions of the separators of s, with the two ends
Cuts(s, sep) == {0, Len(s) + 1} \cup {i \in 1..Len(s) : s[i] = sep}

\* the text between a cut and the next one, without surrounding whitespace
Entry(s, sep, c) ==
    LET next == CHOOSE d \in Cuts(s, sep) :
                    d > c /\ \A e \in Cuts(s, sep) : e > c => d <= e
        ink == {i \in (c + 1)..(next - 1) : ~IsWhitespace(s[i])}
    IN IF ink = {} THEN <<>>
       ELSE SubSeq(s, CHOOSE i \in ink : \A j \in ink : i <= j,
                      CHOOSE i \in ink : \A j \in ink : j <= i)

\* the non-empty entries of s, in the order of their positions
Entries(s, sep) ==
    LET starts == {c \in Cuts(s, sep) : c <= Len(s) /\ Entry(s, sep, c) # <<>>}
        Nth(n) == CHOOSE c \in starts :
                      Cardinality({d \in starts : d <= c}) = n
    IN [n \in 1..Cardinality(starts) |-> Entry(s, sep, Nth(n))]

\* C10: the effective action list is the trimmed, non-empty comma-separated
\* entries of config_actions in order, followed by the trimmed, non-empty
\* newline-separated entries of action_list in order when the file exists;
\* nothing is reordered, dropped or de-duplicated.
C10_ListIsConfigThenFile ==
    al.done =>
        al.list = Entries(al.config, ",")
                    \o (IF al.file.some THEN Entries(al.file.v, "\n") ELSE <<>>)

\* a list with an entry from each source, the same name twice
C10_Witness ==
    /\ al.done /\ al.file.some
    /\ Entries(al.config, ",") = <<NameA>>
    /\ al.list = <<NameA, <<"b">>, NameA>>

----------------------------------------------------------------------------
(* Claims about incremental attestation (SpecReplay) *)

\* what the verifier has appended is the beginning of the log: no entry
\* twice, none left out
ReplayIsPrefix ==
    /\ Len(consumer.replay) <= ima_len
    /\ consumer.replay = LogEntries(0, Len(consumer.replay))

\* a 200 response to a request read with nth_entry = 0 carries the whole log
FullLogAtZero ==
    (resp # None /\ resp.v.code = 200 /\ resp.v.req.nth_entry = 0) =>
        /\ resp.v.results.v.ima_measurement_list
              = Some(LogEntries(0, resp.v.req.ima.v.num))
        /\ resp.v.results.v.ima_measurement_list_entry = None

\* C21: read_measurement_list with nth_entry = 0 returns the entire file,
\* and a verifier that issues successive integrity requests, each time
\* asking from the returned starting offset (0 when it is null) plus the
\* number of entries the response carried, and appending the returned
\* slice, reconstructs a prefix of the IMA log with no entry duplicated or
\* skipped, also while the log grows between requests.
C21_AdvancingReplaysPrefix ==
    /\ FullLogAtZero
    /\ consumer.strategy = "advance" => ReplayIsPrefix

\* C21 as stated: the verifier uses the returned starting offset itself as
\* its next ima_ml_entry
C21_OffsetReplaysPrefix ==
    /\ FullLogAtZero
    /\ consumer.strategy = "offset" => ReplayIsPrefix

\* the second response carried the entry the log grew by, from offset 1
C21_Witness ==
    /\ consumer.strategy = "advance"
    /\ consumer.got = <<None, Some(1)>>
    /\ consumer.replay = <<1, 2>>
    /\ consumer.next = Some(2)

----------------------------------------------------------------------------
(* Claims about the base64 codec (SpecCodec) *)

\* the text is the base64 of no byte string, padded or with its padding
\* left out: it has a character outside the alphabet, or the bytes its
\* symbols stand for encode to another text
NotBase64(text) ==
    \/ \E i \in 1..Len(Unpadded(text)) :
          Unpadded(text)[i] \notin {B64[j] : j \in 1..Len(B64)}
    \/ LET b == DecodeSymbols(Unpadded(text))
       IN text # Base64Encode(b) /\ text # Unpadded(Base64Encode(b))

\* C22: for every byte string b, decoding the output of
\* serialize_as_base64(b) yields b; for every optional byte string,
\* serialize_maybe_base64 emits null for None and a base64 string for
\* Some(b), and deserialize_maybe_base64 maps null back to None and that
\* string back to Some(b); a string that is not valid base64 yields a
\* decode error, never bytes.
C22_Base64RoundTrip ==
    /\ (codec.done = "round_trip" /\ codec.value.some) =>
          /\ codec.as_wire.t = "string"
          /\ codec.as_back = Ok(codec.value.v)
          /\ codec.wire = codec.as_wire
    /\ (codec.done = "round_trip" /\ ~codec.value.some) =>
          codec.wire = JsonNull
    /\ codec.done = "round_trip" => codec.back = Ok(codec.value)
    /\ (codec.done = "decode" /\ codec.json = JsonNull) =>
          codec.maybe_decoded = Ok(None)
    /\ (codec.done = "decode" /\ codec.json.t = "string"
           /\ NotBase64(codec.json.v)) =>
          /\ ~codec.decoded.ok /\ codec.decoded.err.kind = "Serde"
          /\ ~codec.maybe_decoded.ok

\* four bytes, the last group padded, came back from their base64 string
C22_Witness ==
    /\ codec.done = "round_trip"
    /\ codec.value = Some(<<1, 0, 77, 255>>)
    /\ codec.wire = JsonString(<<"A", "Q", "B", "N", "/", "w", "=", "=">>)
    /\ codec.back = Ok(codec.value)

----------------------------------------------------------------------------
(* More claims about the quote handlers (SpecQuote) *)

\* the request that resp answers, when it is one to integrity
IntegrityAnswered == resp # None /\ resp.v.req.kind = "integrity"

\* C23: in the integrity handler, after a successful tpm.quote, an error
\* from check_mask always yields 500 'Unable to retrieve quote', whereas a
\* failure to read measuredboot_ml_path never changes the outcome: the
\* request still proceeds to the IMA read and returns 200 (given the IMA
\* read succeeds) with mb_measurement_list absent.
C23_MaskErrorFatalReadErrorNot ==
    /\ (IntegrityAnswered /\ resp.v.req.check = "error") =>
          /\ resp.v.code = 500
          /\ resp.v.message = "Unable to retrieve quote"
          /\ resp.v.req.id_quote.some
          /\ resp.v.req.reads = <<>>
    /\ h.mb_read = "failed" => h.step = "read_ima"
    /\ (IntegrityAnswered /\ resp.v.req.mb_read = "failed") =>
          /\ resp.v.req.reads = <<"mb", "ima">>
          /\ resp.v.req.ima.some <=> resp.v.code = 200
          /\ resp.v.code = 200 =>
                resp.v.results.v.mb_measurement_list = None

\* the measured-boot log could not be read and the response is 200
C23_Witness ==
    /\ Integrity200 /\ resp.v.req.mb_read = "failed"
    /\ resp.v.req.check = "set"
    /\ resp.v.results.v.mb_measurement_list = None

\* the text writes a number of at most 64 bits in decimal, with or
\* without a sign "+"
IsU64Decimal(str) ==
    LET d == IF str # <<>> /\ Head(str) = "+" THEN Tail(str) ELSE str
    IN /\ d # <<>>
       /\ \A i \in 1..Len(d) : d[i] \in AsciiDigits
       /\ FitsU64(d)

\* the number that is written as the text
WrittenValue(str) ==
    LET d == IF Head(str) = "+" THEN Tail(str) ELSE str
    IN CHOOSE n \in 0..99 :
           ToDecimal(n) = (IF StripZeros(d) = <<>> THEN <<"0">> ELSE StripZeros(d))

\* the offset the claim gives a request
ClaimedOffset(ima_ml_entry) ==
    IF ima_ml_entry.some /\ IsU64Decimal(ima_ml_entry.v)
    THEN WrittenValue(ima_ml_entry.v)
    ELSE 0

\* C24: in the integrity handler, the offset passed to
\* read_measurement_list is the parsed value of ima_ml_entry when it is a
\* valid unsigned 64-bit decimal, and 0 in every other case (parameter
\* missing, empty, negative, non-numeric, or larger than 2^64 - 1); such a
\* request is never rejected with 400 and is answered with the full log.
C24_OffsetIsParsedOrZero ==
    /\ (h.kind = "integrity" /\ h.step = "read_ima") =>
          h.nth_entry = ClaimedOffset(h.ima_ml_entry)
    /\ (IntegrityAnswered /\ "ima" \in Range(resp.v.req.reads)) =>
          resp.v.req.nth_entry = ClaimedOffset(resp.v.req.ima_ml_entry)
    /\ (IntegrityAnswered /\ resp.v.code = 400) =>
          \/ ~integrity_checks(resp.v.req.nonce, resp.v.req.mask.v).ok
          \/ resp.v.req.partial \notin {<<"0">>, <<"1">>}
    /\ (Integrity200 /\ ClaimedOffset(resp.v.req.ima_ml_entry) = 0) =>
          /\ resp.v.results.v.ima_measurement_list
                = Some(LogEntries(0, resp.v.req.ima.v.num))
          /\ resp.v.results.v.ima_measurement_list_entry = None

\* a request for entry 2^64 was answered with the whole log
C24_Witness ==
    /\ Integrity200 /\ resp.v.req.ima_ml_entry = Some(TooLarge)
    /\ resp.v.req.nth_entry = 0
    /\ resp.v.results.v.ima_measurement_list = Some(<<1, 2>>)

\* the requests the model holds: the one in the handler and the one the
\* response answers
Requests == {h} \cup (IF resp # None THEN {resp.v.req} ELSE {})

\* C25: on no execution path of the identity or integrity handler,
\* including the 400 rejection paths, is the value of the caller-supplied
\* nonce written to a log record of level WARN.
C25_NonceNeverWarned ==
    \A r \in Requests :
        \A i \in 1..Len(r.log) :
            r.log[i].level = "WARN" => r.nonce \notin Range(r.log[i].args)

\* C26: whenever PEM export of the NK public key fails, in the identity
\* handler as well as in the integrity handler with partial = "0", the
\* response is HTTP 500 with the message "Unable to retrieve public key"
\* and no 200 response is produced.
C26_PemFailureMessage ==
    /\ h.pem # "failed"
    /\ (resp # None /\ resp.v.req.pem = "failed") =>
          /\ resp.v.code = 500
          /\ resp.v.message = "Unable to retrieve public key"
          /\ resp.v.results = None

----------------------------------------------------------------------------
(* More claims about the revocation service (Spec) *)

\* C27: if body.signature or body.msg is missing or not a JSON string,
\* process_revocation returns InvalidRequest before the certificate path
\* is canonicalized or loaded and before any verification: the outcome is
\* InvalidRequest even when the certificate file does not exist, and the
\* signature check precedes the msg check.
C27_BodyCheckedBeforeCert ==
    (rej.stage # "none" /\ (~rej.body.signature \/ ~rej.body.msg)) =>
        /\ ret = Err(ErrInvalidRequest)
        /\ StagesBefore(rej.stage) \subseteq {"signature", "msg"}
        /\ ~rej.body.signature => rej.stage = "signature"
        /\ rej.body.signature => rej.stage = "msg"

\* a message without signature and msg is rejected for its signature
\* while the certificate file does not exist
C27_Witness ==
    /\ rej.stage = "signature" /\ rej.cert = "missing"
    /\ ~rej.body.signature /\ ~rej.body.msg
    /\ ret = Err(ErrInvalidRequest)

\* what lookup_action returns for the action of a spawned child
Resolution(c) ==
    lookup_action(files, unzipped, actions_dir, c.action,
                  allow_payload_actions).val

\* C28: for every spawned action, the child's environment and arguments
\* follow the resolution result: an interpreted action gets PYTHONPATH =
\* payload_dir exactly when it was payload-sourced and PYTHONPATH =
\* actions_dir otherwise; a native action gets argv [json_path] only and
\* no PYTHONPATH is set by the executor; in both cases the working
\* directory is work_dir and json_path names the temporary file holding
\* the revocation payload.
C28_CommandFollowsResolution ==
    /\ \A i \in 1..Len(spawned) :
         LET c == spawned[i]
             r == Resolution(c)
         IN /\ c.exe = r.command
            /\ r.is_python =>
                  /\ c.argv = <<c.action, c.json_path>>
                  /\ c.env.some
                  /\ c.env.v = unzipped <=> r.is_payload
                  /\ c.env.v = actions_dir <=> ~r.is_payload
            /\ ~r.is_python =>
                  /\ c.argv = <<c.json_path>>
                  /\ c.env = None
            /\ c.cwd = work_dir
            /\ \E n \in 1..ntmp : c.json_path = JsonPath(n)
            /\ \A j \in 1..Len(spawned) :
                  j # i => spawned[j].json_path # c.json_path
    /\ \A c \in children :
         /\ c.json_path \in tmpfiles
         /\ c.body = cur

\* an interpreted action from the payload runs with PYTHONPATH =
\* payload_dir
C28_Witness ==
    \E c \in children :
        /\ c.is_python /\ c.is_payload
        /\ c.env = Some(unzipped)
        /\ c.argv = <<c.action, c.json_path>>
        /\ c.json_path \in tmpfiles

----------------------------------------------------------------------------
(* Claims about the locks of the quote handlers (SpecLocksFair) *)

\* no handler holds both locks; the lock of the TPM context is held inside
\* tpm::quote only and the lock of the IMA reader inside
\* read_measurement_list only
LocksHeldOneAtATime ==
    \A i \in Workers :
        /\ ~(wk.tpm_lock = i /\ wk.ima_lock = i)
        /\ wk.tpm_lock = i <=> wk.w[i].step = "quoting"
        /\ wk.ima_lock = i <=> wk.w[i].step = "reading"

====
